---- MODULE Spec2Model ----
(***************************************************************************)
(* Model of the chart pipeline of llimage: ChartDetector                   *)
(* (src/llimage/chart/detector.py) and ChartDataExtractor                  *)
(* (src/llimage/chart/extractor.py).                                       *)
(*                                                                         *)
(* Numbers.  The code works on Python floats.  The model keeps             *)
(*   - areas and pixel coordinates as integers,                            *)
(*   - the ratio features solidity, extent, circularity and aspect_ratio   *)
(*     as fractions in lowest terms: <<19, 20>> stands for 0.95.  A float  *)
(*     quotient of two integers is the float next to the exact quotient,   *)
(*     so it compares with a threshold of the code as the fraction does,   *)
(*   - arc_score, a measurement, in hundredths: 95 stands for 0.95,        *)
(*   - centroid coordinates and perimeters in tenths of a pixel: 152       *)
(*     stands for 15.2,                                                    *)
(*   - confidence and min_confidence in ten-thousandths, the confidence    *)
(*     rounded down: 7000 stands for 0.7,                                  *)
(*   - the alignments and radial_arrangement in ten-thousandths,           *)
(*   - percentages in hundredths of a percent: 10000 stands for 100 %.     *)
(* Where the exact value of a float lies on a threshold the code compares  *)
(* it with, rounding decides the comparison; the operators concerned       *)
(* (detect, analyze_chart_structure, extract_data) give the set of the     *)
(* values the call can return, a single one everywhere else.               *)
(*                                                                         *)
(* OpenCV.  cv2 is a library, not code of the repository.  A contour is    *)
(* the record of what cv2 measures on it (contourArea, boundingRect, the   *)
(* area of convexHull, the area of minEnclosingCircle, moments, arcLength, *)
(* the length of approxPolyDP at each epsilon, and the arc score the code  *)
(* derives from the contour points); an image is what findContours returns *)
(* on it, or the stage at which the library raises.  ellipse_eccentricity  *)
(* is computed by the code but read by nothing in the repository and is    *)
(* left out of the feature vector.  The specification of the ratios works  *)
(* on the points of a contour instead, and computes from them what the     *)
(* code and cv2 compute: areas, bounding box, hull, centre of mass,        *)
(* distances, angles and arc_score, the last in ten-thousandths.           *)
(***************************************************************************)
EXTENDS Integers, Sequences, FiniteSets, TLC

VARIABLES
    detector,      \* ChartDetector instance: the fields __init__ sets
    image,         \* the argument of detect / detect_shapes
    result,        \* what detect(image) returned, or None before the call
    detected,      \* what detect_shapes(image, include_features) did, or None
    detectors,     \* classifier probe: the ChartDetector instances in use
    features,      \* classifier probe: the feature vector passed
    calls,         \* classifier probe: the calls of _classify_shape so far
    line_out,      \* classifier probe: _extract_line_data on the same vector
    ex_type,       \* extract_data: the chart_type argument
    ex_shapes,     \* extract_data: the shapes argument
    ex_features,   \* extract_data: the features argument
    ex_result,     \* what extract_data returned, or None before the call
    done,          \* the names of the calls made so far
    twin,          \* what detect(image) of a second ChartDetector returned
    an_shapes,     \* analyze_chart_structure: the shapes argument
    an_types,      \* analyze_chart_structure: the shape_types argument
    an_result,     \* what analyze_chart_structure returned, or None
    extractor,     \* ChartDataExtractor instance: the field __init__ sets
    invocations,   \* the pipeline invocations in progress on one detector
    formatter,     \* JsonFormatter / TextFormatter: the fields __init__ sets
    detection_result, \* the argument of format_result
    json_out,      \* what JsonFormatter.format_result returned, or None
    shape_types,   \* the argument of the two chart-type inferences
    json_kind,     \* what JsonFormatter._infer_chart_type returned
    text_kind,     \* what TextFormatter._infer_chart_description returned
    loop,          \* _detect_shapes_internal: the locals of the loop in progress
    requests,      \* app: the POST /process requests in progress
    disk,          \* app: the files of the working directory
    uuids,         \* app: the values uuid.uuid4() has returned
    measurement,   \* ratios: the points of a contour and the centres of a chart
    ratios         \* ratios: what the feature and radial computations yielded

analyzerVars == <<an_shapes, an_types, an_result>>
sessionVars == <<extractor, invocations>>
formatVars == <<formatter, detection_result, json_out, shape_types, json_kind, text_kind>>
loopVars == <<loop>>
appVars == <<requests, disk, uuids>>
ratioVars == <<measurement, ratios>>

vars == <<detector, image, result, detected, detectors, features, calls,
          line_out, ex_type, ex_shapes, ex_features, ex_result, done,
          twin, analyzerVars, sessionVars, formatVars, loopVars, appVars, ratioVars>>

None == "None"

(***************************************************************************)
(* Bounds of the model.                                                    *)
(***************************************************************************)
MaxContours == 3
MaxCalls == 2
MaxShapes == 3
MaxAnalyzed == 5
MaxTypes == 4
MaxFormatted == 2
MaxRequests == 2

(***************************************************************************)
(* Program constants (ChartDetector.__init__ defaults).                    *)
(***************************************************************************)
DefaultMinConfidence == 7000
DefaultMinShapeArea == 50
DefaultShapeSimilarityThreshold == 85

Range(s) == {s[i] : i \in 1..Len(s)}

RECURSIVE SeqsUpTo(_, _)
SeqsUpTo(S, n) ==
    IF n = 0 THEN {<<>>}
    ELSE LET shorter == SeqsUpTo(S, n - 1)
         IN  shorter \cup {Append(s, e) : s \in {t \in shorter : Len(t) = n - 1}, e \in S}

(* the sequences of at most n elements of S, no element twice *)
RECURSIVE DistinctSeqsUpTo(_, _)
DistinctSeqsUpTo(S, n) ==
    IF n = 0 THEN {<<>>}
    ELSE LET shorter == DistinctSeqsUpTo(S, n - 1)
         IN  shorter \cup UNION {{Append(t, e) : e \in S \ Range(t)} :
                                     t \in {u \in shorter : Len(u) = n - 1}}

RECURSIVE SumSeq(_)
SumSeq(s) == IF s = <<>> THEN 0 ELSE Head(s) + SumSeq(Tail(s))

Min2(a, b) == IF a < b THEN a ELSE b
Max2(a, b) == IF a > b THEN a ELSE b
Abs(a) == IF a < 0 THEN 0 - a ELSE a

(* the quotient of a by b > 0 without its fraction, rounded towards zero
   as int(a / b) is *)
TruncDiv(a, b) == IF a >= 0 THEN a \div b ELSE 0 - ((0 - a) \div b)

(***************************************************************************)
(* list.sort(key=...): a stable sort.  keys[i] is the key of s[i]; an      *)
(* entry goes after every entry with a smaller key and after the earlier   *)
(* entries with an equal key.                                              *)
(***************************************************************************)
SortByKey(s, keys) ==
    LET rank(i) == Cardinality({j \in 1..Len(s) : keys[j] < keys[i]})
                   + Cardinality({j \in 1..(i - 1) : keys[j] = keys[i]}) + 1
    IN  [k \in 1..Len(s) |-> s[CHOOSE i \in 1..Len(s) : rank(i) = k]]

(***************************************************************************)
(* ChartDetector.__init__: config is a dict that may lack any key.         *)
(***************************************************************************)
Get(config, key, default) == IF key \in DOMAIN config THEN config[key] ELSE default

ChartDetector(config) ==
    [min_confidence |-> Get(config, "min_confidence", DefaultMinConfidence),
     min_shape_area |-> Get(config, "min_shape_area", DefaultMinShapeArea),
     shape_similarity_threshold |->
         Get(config, "shape_similarity_threshold", DefaultShapeSimilarityThreshold)]

EmptyConfig == [k \in {} |-> 0]

Configs ==
    { EmptyConfig,
      [k \in {"min_confidence"} |-> 9200],
      [k \in {"min_shape_area"} |-> 100],
      [k \in {"min_confidence", "shape_similarity_threshold"} |->
          IF k = "min_confidence" THEN 5000 ELSE 50] }

(***************************************************************************)
(* Contours: what cv2 measures.  perimeter is arcLength(contour, True), in *)
(* tenths of a pixel: that of a rectangle whose bounding box is w by h is  *)
(* 2 (w - 1) + 2 (h - 1).  approx[e] is len(approxPolyDP) at               *)
(* epsilon = e/100 * perimeter; arc is the arc score of the contour points *)
(* (0.7 * distance_score + 0.3 * gap_score), in hundredths; m00 is the     *)
(* moment cv2.moments gives under that key and centroid is                 *)
(* (m10 / m00, m01 / m00), in tenths of a pixel.  The geometry every       *)
(* contour obeys: area <= hull_area <= w * h, hull_area <= circle_area.    *)
(* The contours built here have their centroid at the centre of the        *)
(* bounding box.                                                           *)
(***************************************************************************)
Contour(x, y, w, h, area, hull_area, circle_area, a2, a3, a4, arc, perimeter) ==
    [bbox |-> <<x, y, w, h>>, area |-> area, perimeter |-> perimeter,
     hull_area |-> hull_area, circle_area |-> circle_area,
     m00 |-> area, centroid |-> <<10 * x + 5 * w, 10 * y + 5 * h>>,
     approx |-> [e \in {2, 3, 4} |-> IF e = 2 THEN a2 ELSE IF e = 3 THEN a3 ELSE a4],
     arc |-> arc]

Marker == Contour(0, 0, 10, 10, 80, 80, 125, 8, 8, 8, 90, 340)
Speck  == Contour(60, 0, 5, 5, 20, 20, 25, 4, 4, 4, 90, 160)
BarA   == Contour(0, 0, 40, 40, 1520, 1520, 2375, 4, 4, 4, 66, 1560)
BarC   == Contour(0, 0, 40, 60, 2280, 2280, 4560, 4, 4, 4, 62, 1960)
BarD   == Contour(20, 0, 40, 40, 1520, 1520, 2375, 4, 4, 4, 66, 1560)
Wedge  == Contour(50, 0, 60, 60, 1800, 2016, 3600, 7, 6, 5, 50, 1900)
Blob   == Contour(0, 0, 40, 40, 800, 1600, 2000, 9, 9, 9, 40, 2400)
Tri    == Contour(30, 0, 40, 40, 800, 800, 2000, 3, 3, 3, 70, 1332)
Disc   == Contour(100, 0, 50, 50, 1900, 1900, 2000, 8, 8, 8, 95, 1600)

Contours == {Marker, Speck, BarA, BarC, BarD, Wedge, Blob, Tri, Disc}

(***************************************************************************)
(* Images: not an ndarray (a str), an ndarray on which cv2 raises in       *)
(* preprocess_image or in findContours, or an ndarray with its contours in *)
(* the order findContours returns them.                                    *)
(***************************************************************************)
Images ==
    {[kind |-> "str", cv_error |-> "none", found |-> <<>>]}
    \cup {[kind |-> "ndarray", cv_error |-> e, found |-> <<>>] :
              e \in {"cvtColor", "findContours"}}
    \cup {[kind |-> "ndarray", cv_error |-> "none", found |-> s] :
              s \in SeqsUpTo(Contours, MaxContours)}

(***************************************************************************)
(* Outcome of a call: it returned a value or it raised.                    *)
(***************************************************************************)
Return(v) == [raised |-> FALSE, value |-> v]
Raise(e) == [raised |-> TRUE, error |-> e]

(***************************************************************************)
(* ChartDetector.preprocess_image: image.shape raises AttributeError on a  *)
(* str; cv2 raises on an array it cannot convert.  Otherwise the binary    *)
(* mask, which the model identifies with the image it was made from.       *)
(***************************************************************************)
preprocess_image(img) ==
    IF img.kind # "ndarray" THEN Raise("'str' object has no attribute 'shape'")
    ELSE IF img.cv_error = "cvtColor" THEN Raise("cv2.error: cvtColor")
    ELSE Return(img)

(***************************************************************************)
(* sorted(contours, key=lambda c: cv2.boundingRect(c)[0]): a stable sort,  *)
(* as an insertion sort that puts each contour after those with an equal   *)
(* or smaller key.                                                         *)
(***************************************************************************)
InsertByX(s, c) ==
    LET p == Cardinality({i \in 1..Len(s) : s[i].bbox[1] <= c.bbox[1]})
    IN  SubSeq(s, 1, p) \o <<c>> \o SubSeq(s, p + 1, Len(s))

(* the candidates left in the order findContours returned them *)
KeepFoundOrder(cs) == cs

RECURSIVE SortByX(_)
SortByX(cs) ==
    IF cs = <<>> THEN <<>>
    ELSE InsertByX(SortByX(SubSeq(cs, 1, Len(cs) - 1)), cs[Len(cs)])

(* The area filter with the default in place of the configured minimum. *)
TooSmallDefault(self, contour) == contour.area < DefaultMinShapeArea

(***************************************************************************)
(* _detect_shapes_internal, lines 66-69: the area filter.                  *)
(***************************************************************************)
TooSmall(self, contour) == contour.area < self.min_shape_area

(* The overlap test with the 0.85 similarity threshold in place of 0.5. *)
OverlapsBySimilarity(bbox, other_bbox) ==
    LET x == bbox[1]
        y == bbox[2]
        w == bbox[3]
        h == bbox[4]
        ox == other_bbox[1]
        oy == other_bbox[2]
        ow == other_bbox[3]
        oh == other_bbox[4]
        intersection == (Min2(x + w, ox + ow) - Max2(x, ox)) * (Min2(y + h, oy + oh) - Max2(y, oy))
        union == w * h + ow * oh - intersection
    IN  /\ x < ox + ow /\ x + w > ox /\ y < oy + oh /\ y + h > oy
        /\ 100 * intersection > DefaultShapeSimilarityThreshold * union

(***************************************************************************)
(* _detect_shapes_internal, lines 78-87: the test of one processed box.    *)
(* intersection / union > 0.5 is a division of two integers below 2^53,    *)
(* decided exactly by 2 * intersection > union.                            *)
(***************************************************************************)
Overlaps(bbox, other_bbox) ==
    LET x == bbox[1]
        y == bbox[2]
        w == bbox[3]
        h == bbox[4]
        ox == other_bbox[1]
        oy == other_bbox[2]
        ow == other_bbox[3]
        oh == other_bbox[4]
        intersection == (Min2(x + w, ox + ow) - Max2(x, ox)) * (Min2(y + h, oy + oh) - Max2(y, oy))
        union == w * h + ow * oh - intersection
    IN  /\ x < ox + ow /\ x + w > ox /\ y < oy + oh /\ y + h > oy
        /\ 2 * intersection > union

(* lines 76-90: overlap with any box of processed_areas *)
IsDuplicate(bbox, processed_areas) ==
    \E other_bbox \in processed_areas : Overlaps(bbox, other_bbox)

(***************************************************************************)
(* Fractions.  A ratio feature is the exact fraction the code divides, in  *)
(* lowest terms, <<numerator, denominator>>.  A float division of two      *)
(* integers below 2^53 is correctly rounded, and so is the float of a      *)
(* decimal threshold, so the code's comparison of the quotient with a      *)
(* threshold has the outcome of the comparison of the exact fraction,      *)
(* decided here by cross-multiplication.                                   *)
(***************************************************************************)
RECURSIVE GCD(_, _)
GCD(a, b) == IF b = 0 THEN a ELSE GCD(b, a % b)

(* numerator / denominator, denominator > 0 *)
Ratio(numerator, denominator) ==
    LET g == GCD(numerator, denominator)
    IN  <<numerator \div g, denominator \div g>>

(* the float 0.0 *)
Zero == <<0, 1>>

(* the float written with two decimals: Hundredths(95) is 0.95 *)
Hundredths(k) == Ratio(k, 100)

(* ratio > k / 100, ratio >= k / 100, ratio <= k / 100 *)
Gt(ratio, k) == 100 * ratio[1] > k * ratio[2]
Ge(ratio, k) == 100 * ratio[1] >= k * ratio[2]
Le(ratio, k) == 100 * ratio[1] <= k * ratio[2]

(***************************************************************************)
(* The ratios of ChartDetector._extract_shape_features, one operator per   *)
(* division of the code.                                                   *)
(***************************************************************************)
(* a hull without area taken for one the shape fills *)
SolidityOfFullHull(area, hull_area) ==
    IF hull_area > 0 THEN Ratio(area, hull_area) ELSE Ratio(1, 1)

(* line 128 *)
Solidity(area, hull_area) == IF hull_area > 0 THEN Ratio(area, hull_area) ELSE Zero

(* line 131 *)
AspectRatio(w, h) == IF h # 0 THEN Ratio(w, h) ELSE Zero

(* lines 132-133 *)
Extent(area, w, h) == IF w * h > 0 THEN Ratio(area, w * h) ELSE Zero

(* line 138 *)
Circularity(area, circle_area) == IF circle_area > 0 THEN Ratio(area, circle_area) ELSE Zero

(***************************************************************************)
(* ChartDetector._extract_shape_features.                                  *)
(***************************************************************************)
_extract_shape_features(contour) ==
    LET area == contour.area
        x == contour.bbox[1]
        y == contour.bbox[2]
        w == contour.bbox[3]
        h == contour.bbox[4]
        hull_area == contour.hull_area
        solidity == Solidity(area, hull_area)
        aspect_ratio == AspectRatio(w, h)
        extent == Extent(area, w, h)
        circle_area == contour.circle_area
        circularity == Circularity(area, circle_area)
        cx == IF contour.m00 # 0 THEN contour.centroid[1] ELSE 10 * x + 5 * w
        cy == IF contour.m00 # 0 THEN contour.centroid[2] ELSE 10 * y + 5 * h
        epsilon == IF area < 500 THEN 2 ELSE IF area < 2000 THEN 3 ELSE 4
        vertices == contour.approx[epsilon]
        arc_score == IF area > 1000 THEN contour.arc ELSE 0
    IN  [area |-> area,
         perimeter |-> contour.perimeter,
         bounding_box |-> <<x, y, w, h>>,
         center |-> <<cx, cy>>,
         solidity |-> solidity,
         aspect_ratio |-> aspect_ratio,
         extent |-> extent,
         circularity |-> circularity,
         vertices |-> vertices,
         arc_score |-> arc_score]

(***************************************************************************)
(* ChartDetector._classify_shape(self, features), lines 227-239: the point *)
(* rule.                                                                   *)
(***************************************************************************)
IsPoint(f) ==
    /\ f.area < 1000 /\ Gt(f.solidity, 90)
    /\ \/ Gt(f.circularity, 45)
       \/ (f.vertices >= 5 /\ f.vertices <= 8 /\ Gt(f.extent, 60))
       \/ (f.area < 400 /\ Gt(f.extent, 60) /\ Gt(f.solidity, 95))
       \/ (Gt(f.solidity, 95) /\ Gt(f.extent, 70))
       \/ (Gt(f.circularity, 40) /\ Gt(f.extent, 65) /\ Gt(f.solidity, 95))
       \/ (f.area < 400 /\ Gt(f.solidity, 95) /\ Gt(f.extent, 65))
       \/ (f.area < 500 /\ f.vertices <= 6 /\ Gt(f.solidity, 95))

(***************************************************************************)
(* A detector whose classifier consults its configuration.                 *)
(***************************************************************************)
ClassifyByConfig(self, f) ==
    IF f.area < self.min_shape_area THEN "unknown"
    ELSE IF IsPoint(f) THEN "point"
    ELSE IF f.vertices = 4 /\ Gt(f.extent, 85) /\ Gt(f.solidity, 90) THEN "rectangle"
    ELSE IF f.vertices = 3 /\ Gt(f.solidity, 90) THEN "triangle"
    ELSE "unknown"

(* the decision list with the rectangle rule tried before the point rule *)
ClassifyRectangleFirst(self, f) ==
    IF f.vertices = 4 /\ Gt(f.extent, 85) /\ Gt(f.solidity, 90) THEN "rectangle"
    ELSE IF IsPoint(f) THEN "point"
    ELSE IF f.vertices = 3 /\ Gt(f.solidity, 90) THEN "triangle"
    ELSE IF Gt(f.circularity, 80) /\ Gt(f.solidity, 90) /\ f.area >= 1000 THEN "circle"
    ELSE IF /\ f.area > 1000 /\ f.arc_score > 30 /\ Gt(f.solidity, 80)
            /\ Ge(f.circularity, 20) /\ Le(f.circularity, 90) THEN "segment"
    ELSE "unknown"

(* ChartDetector._classify_shape, lines 207-263 *)
_classify_shape(self, f) ==
    IF IsPoint(f) THEN "point"
    ELSE IF f.vertices = 4 /\ Gt(f.extent, 85) /\ Gt(f.solidity, 90) THEN "rectangle"
    ELSE IF f.vertices = 3 /\ Gt(f.solidity, 90) THEN "triangle"
    ELSE IF Gt(f.circularity, 80) /\ Gt(f.solidity, 90) /\ f.area >= 1000 THEN "circle"
    ELSE IF /\ f.area > 1000 /\ f.arc_score > 30 /\ Gt(f.solidity, 80)
            /\ Ge(f.circularity, 20) /\ Le(f.circularity, 90) THEN "segment"
    ELSE "unknown"

(***************************************************************************)
(* A loop body whose duplicate test reads the configured                   *)
(* shape_similarity_threshold instead of the fixed 0.5.                    *)
(***************************************************************************)
LoopBodyBySimilarity(self, contour, acc) ==
    LET similar(b, o) ==
            /\ b[1] < o[1] + o[3] /\ b[1] + b[3] > o[1]
            /\ b[2] < o[2] + o[4] /\ b[2] + b[4] > o[2]
            /\ LET intersection == (Min2(b[1] + b[3], o[1] + o[3]) - Max2(b[1], o[1]))
                                   * (Min2(b[2] + b[4], o[2] + o[4]) - Max2(b[2], o[2]))
               IN  100 * intersection
                      > self.shape_similarity_threshold
                           * (b[3] * b[4] + o[3] * o[4] - intersection)
    IN  IF TooSmall(self, contour) THEN acc
        ELSE IF \E o \in acc.processed_areas : similar(contour.bbox, o) THEN acc
        ELSE LET feats == _extract_shape_features(contour)
                 shape_type == _classify_shape(self, feats)
             IN  IF shape_type # "unknown"
                 THEN [shapes |-> Append(acc.shapes, contour),
                       shape_types |-> Append(acc.shape_types, shape_type),
                       shape_features |-> Append(acc.shape_features, feats),
                       processed_areas |-> acc.processed_areas \cup {contour.bbox}]
                 ELSE acc

(* a loop body that accepts every candidate it has classified *)
LoopBodyKeepUnknown(self, contour, acc) ==
    IF TooSmall(self, contour) THEN acc
    ELSE IF IsDuplicate(contour.bbox, acc.processed_areas) THEN acc
    ELSE LET feats == _extract_shape_features(contour)
             shape_type == _classify_shape(self, feats)
         IN  [shapes |-> Append(acc.shapes, contour),
              shape_types |-> Append(acc.shape_types, shape_type),
              shape_features |-> Append(acc.shape_features, feats),
              processed_areas |-> acc.processed_areas \cup {contour.bbox}]

(* a loop body that records the box of every candidate it has classified *)
LoopBodyRecordAll(self, contour, acc) ==
    IF TooSmall(self, contour) THEN acc
    ELSE IF IsDuplicate(contour.bbox, acc.processed_areas) THEN acc
    ELSE LET feats == _extract_shape_features(contour)
             shape_type == _classify_shape(self, feats)
         IN  IF shape_type # "unknown"
             THEN [shapes |-> Append(acc.shapes, contour),
                   shape_types |-> Append(acc.shape_types, shape_type),
                   shape_features |-> Append(acc.shape_features, feats),
                   processed_areas |-> acc.processed_areas \cup {contour.bbox}]
             ELSE [acc EXCEPT !.processed_areas = @ \cup {contour.bbox}]

(***************************************************************************)
(* _detect_shapes_internal, lines 65-100: one pass of the loop body over   *)
(* the accumulated lists and processed_areas.                              *)
(***************************************************************************)
LoopBody(self, contour, acc) ==
    IF TooSmall(self, contour) THEN acc
    ELSE IF IsDuplicate(contour.bbox, acc.processed_areas) THEN acc
    ELSE LET feats == _extract_shape_features(contour)
             shape_type == _classify_shape(self, feats)
         IN  IF shape_type # "unknown"
             THEN [shapes |-> Append(acc.shapes, contour),
                   shape_types |-> Append(acc.shape_types, shape_type),
                   shape_features |-> Append(acc.shape_features, feats),
                   processed_areas |-> acc.processed_areas \cup {contour.bbox}]
             ELSE acc

RECURSIVE DetectLoop(_, _, _, _)
DetectLoop(self, cs, i, acc) ==
    IF i > Len(cs) THEN acc
    ELSE DetectLoop(self, cs, i + 1, LoopBody(self, cs[i], acc))

(***************************************************************************)
(* ChartDetector._detect_shapes_internal(image): findContours, the sort,   *)
(* the loop.  cv2.findContours raises on an array it does not accept.      *)
(***************************************************************************)
_detect_shapes_internal(self, img) ==
    IF img.kind # "ndarray" \/ img.cv_error # "none"
    THEN Raise("cv2.error: findContours")
    ELSE LET contours == SortByX(img.found)
             acc == DetectLoop(self, contours, 1,
                               [shapes |-> <<>>, shape_types |-> <<>>,
                                shape_features |-> <<>>, processed_areas |-> {}])
         IN  Return([shapes |-> acc.shapes, shape_types |-> acc.shape_types,
                     shape_features |-> acc.shape_features])

(* ChartDetector.detect_shapes, lines 110-116 *)
detect_shapes(self, img, include_features) ==
    LET d == _detect_shapes_internal(self, img)
    IN  IF d.raised THEN d
        ELSE IF include_features THEN d
        ELSE Return([shapes |-> d.value.shapes, shape_types |-> d.value.shape_types])

(***************************************************************************)
(* ChartDetector.analyze_chart_structure.  The four metrics are kept in    *)
(* ten-thousandths (10000 stands for 1.0).  The alignments are ratios of   *)
(* integers, rounded up.  radial_arrangement goes through np.sqrt, np.std  *)
(* and np.arctan2, which the model computes in integers: square roots      *)
(* rounded down, angles in thousandths of a degree from a table of arctan  *)
(* at the 64ths with linear interpolation (within 0.002 degrees of the     *)
(* library's value); the radial_arrangement of the model is within 0.0003  *)
(* of the float the code computes.  The code subtracts the float np.mean   *)
(* of the coordinates.  Multiples of half a pixel are floats, and so are   *)
(* their sums and their mean where it is one of them: a centre that is the *)
(* mean centre then has the offset (0, 0) and the angle arctan2(0, 0) = 0. *)
(* Other coordinates are rounded, their mean is off by some units of the   *)
(* last place, and a centre on the mean has an offset of that size, whose  *)
(* direction the rounding decides.                                         *)
(***************************************************************************)
RECURSIVE SqrtSearch(_, _, _)
SqrtSearch(n, lo, hi) ==
    IF lo >= hi THEN lo
    ELSE LET mid == (lo + hi + 1) \div 2
         IN  IF mid * mid <= n THEN SqrtSearch(n, mid, hi)
             ELSE SqrtSearch(n, lo, mid - 1)

(* np.sqrt of a non-negative integer below 2^31, rounded down *)
ISqrt(n) == SqrtSearch(n, 0, 46340)

(* arctan(k / 64) in thousandths of a degree, k = 0 .. 64 *)
AtanTable ==
    << 0, 895, 1790, 2684, 3576, 4467, 5356, 6242,
       7125, 8005, 8881, 9752, 10620, 11482, 12339, 13191,
       14036, 14876, 15709, 16535, 17354, 18166, 18970, 19767,
       20556, 21337, 22109, 22874, 23629, 24376, 25115, 25844,
       26565, 27277, 27979, 28673, 29358, 30033, 30700, 31357,
       32005, 32645, 33275, 33896, 34509, 35112, 35707, 36293,
       36870, 37439, 37999, 38550, 39094, 39629, 40156, 40675,
       41186, 41689, 42184, 42672, 43152, 43625, 44091, 44549,
       45000 >>

(* arctan(a / b) for 0 <= a <= b, b > 0, in thousandths of a degree *)
AtanRatio(a, b) ==
    LET k == (64 * a) \div b
        rest == (64 * a) % b
    IN  IF k >= 64 THEN AtanTable[65]
        ELSE AtanTable[k + 1] + ((AtanTable[k + 2] - AtanTable[k + 1]) * rest) \div b

(* np.degrees(np.arctan2(dy, dx)) % 360, lines 323-327, in thousandths of a
   degree; arctan2(0, 0) is 0 *)
Degrees(dy, dx) ==
    LET ax == Abs(dx)
        ay == Abs(dy)
        acute == IF ax = 0 /\ ay = 0 THEN 0
                 ELSE IF ay <= ax THEN AtanRatio(ay, ax)
                 ELSE 90000 - AtanRatio(ax, ay)
        full == IF dx >= 0 /\ dy >= 0 THEN acute
                ELSE IF dx < 0 /\ dy >= 0 THEN 180000 - acute
                ELSE IF dx < 0 THEN 180000 + acute
                ELSE 360000 - acute
    IN  full % 360000

(* lines 281-289: the centre of a shape, in tenths of a pixel *)
CenterOf(shape) ==
    IF shape.m00 # 0
    THEN shape.centroid
    ELSE <<10 * shape.bbox[1] + 5 * shape.bbox[3], 10 * shape.bbox[2] + 5 * shape.bbox[4]>>

RECURSIVE MaxSeq(_)
MaxSeq(s) == IF Len(s) = 1 THEN s[1] ELSE Max2(Head(s), MaxSeq(Tail(s)))

RECURSIVE MinSeq(_)
MinSeq(s) == IF Len(s) = 1 THEN s[1] ELSE Min2(Head(s), MinSeq(Tail(s)))

(***************************************************************************)
(* A quotient of two integers to a number of decimal digits, one digit a   *)
(* step: from the whole part and the remainder of the division to          *)
(* <<quotient, remainder>> of the division of the numerator times          *)
(* 10^digits.                                                              *)
(***************************************************************************)
RECURSIVE Scaled(_, _, _, _)
Scaled(quotient, remainder, denominator, digits) ==
    IF digits = 0 THEN <<quotient, remainder>>
    ELSE Scaled(10 * quotient + (10 * remainder) \div denominator,
                (10 * remainder) % denominator, denominator, digits - 1)

(***************************************************************************)
(* lines 291-311: vertical_alignment of the x coordinates, and             *)
(* horizontal_alignment of the y coordinates: 1 - mean(|c - mean| / range) *)
(* = 1 - sum |n c - sum| / (n^2 range); the range of a single coordinate   *)
(* is 1.0, and a range of 0 gives 1.0.  AlignmentParts is the quotient in  *)
(* ten-thousandths with the remainder of the division.                     *)
(***************************************************************************)
AlignmentParts(coords) ==
    LET n == Len(coords)
        range == IF n > 1 THEN MaxSeq(coords) - MinSeq(coords) ELSE 10
        total == SumSeq(coords)
        deviations == SumSeq([i \in 1..n |-> Abs(n * coords[i] - total)])
        whole == n * n * range
        part == whole - deviations
    IN  IF range = 0 THEN <<10000, 0>>
        ELSE Scaled(part \div whole, part % whole, whole, 4)

(* the alignment in ten-thousandths, rounded up: the code compares it with
   its threshold by >, and a value rounded up is above a ten-thousandth
   exactly when the alignment is *)
Alignment(coords) ==
    LET parts == AlignmentParts(coords)
    IN  IF parts[2] = 0 THEN parts[1] ELSE parts[1] + 1

(***************************************************************************)
(* line 358: vertical_alignment as the comparison with 0.7 sees it.  The   *)
(* float the code computes is within a few units of the last place of the  *)
(* exact alignment; where that is 0.7 itself the float can lie on either   *)
(* side of the threshold.                                                  *)
(***************************************************************************)
VerticalAlignments(coords) ==
    IF AlignmentParts(coords) = <<7000, 0>> THEN {7000, 7001}
    ELSE {Alignment(coords)}

(* lines 330-342: 1 - mean(|diff - 360/n| / (360/n)) over the n gaps between
   the sorted angles, the last one closing the circle *)
AngleUniformity(angles) ==
    LET n == Len(angles)
        sorted == SortByKey(angles, angles)
        angle_diffs == [i \in 1..n |-> IF i < n THEN sorted[i + 1] - sorted[i]
                                       ELSE 360000 - (sorted[n] - sorted[1])]
        deviations == SumSeq([i \in 1..n |-> Abs(n * angle_diffs[i] - 360000)])
    IN  (360000 * n - deviations) \div (36 * n)

(* lines 344-346: 1 - std(distances) / mean(distances), 0 when the mean is
   not above 0; std / mean = sqrt(n sum d^2 - (sum d)^2) / sum d.  The
   quotient does not depend on the unit of the distances, which is chosen
   to keep n sum d^2 below 2^31. *)
DistUniformity(distances) ==
    LET n == Len(distances)
        unit == (n * MaxSeq(distances)) \div 46340 + 1
        scaled == [i \in 1..n |-> distances[i] \div unit]
        total == SumSeq(scaled)
        squares == SumSeq([i \in 1..n |-> scaled[i] * scaled[i]])
    IN  IF total > 0
        THEN (10000 * (total - ISqrt(n * squares - total * total))) \div total
        ELSE 0

(* line 349 *)
RadialWeighted(angle_uniformity, dist_uniformity) ==
    (95 * angle_uniformity + 5 * dist_uniformity) \div 100

(* lines 315-321: the offsets (dx, dy) of the centres from their mean
   centre, kept multiplied by n, which changes neither the angles nor the
   ratio of the distances *)
Offsets(centers) ==
    LET n == Len(centers)
        sum_x == SumSeq([i \in 1..n |-> centers[i][1]])
        sum_y == SumSeq([i \in 1..n |-> centers[i][2]])
    IN  [i \in 1..n |-> <<n * centers[i][1] - sum_x, n * centers[i][2] - sum_y>>]

(* lines 319-320: the distances np.sqrt(dx^2 + dy^2), in the unit that
   brings the largest offset next to 32000 / n, so that neither the squares
   here nor n sum d^2 in DistUniformity pass 2^31 *)
CenterDistances(offsets) ==
    LET n == Len(offsets)
        largest == MaxSeq([i \in 1..n |-> Max2(Abs(offsets[i][1]), Abs(offsets[i][2]))])
        limit == 32000 \div n
        finer == IF largest > 0 THEN Max2(limit \div largest, 1) ELSE 1
        coarser == largest \div limit + 1
        dx == [i \in 1..n |-> TruncDiv(finer * offsets[i][1], coarser)]
        dy == [i \in 1..n |-> TruncDiv(finer * offsets[i][2], coarser)]
    IN  [i \in 1..n |-> ISqrt(dx[i] * dx[i] + dy[i] * dy[i])]

(* whether the coordinates, held in tenths, are floats: multiples of half a
   pixel, whose sums are exact *)
ExactFloats(coords) == \A i \in 1..Len(coords) : coords[i] % 5 = 0

(* lines 313-349: the radial arrangement where the centres on the mean
   centre lie in the given direction from the float mean *)
RadialAt(centers, direction) ==
    LET n == Len(centers)
        offsets == Offsets(centers)
        distances == CenterDistances(offsets)
        angles == [i \in 1..n |-> IF offsets[i] = <<0, 0>> THEN direction
                                  ELSE Degrees(offsets[i][2], offsets[i][1])]
    IN  RadialWeighted(AngleUniformity(angles), DistUniformity(distances))

(***************************************************************************)
(* lines 315-327: the directions a centre on the mean centre can have from *)
(* the float mean.  An axis whose coordinates are floats has the offset 0; *)
(* on another axis the offset is 0 or a rounding error of either sign.     *)
(* With both axes rounded the direction can be any; the radial arrangement *)
(* is piecewise linear in it, so that its extremes lie where the direction *)
(* meets one of the other angles or is 360 / n away from one.              *)
(***************************************************************************)
MeanDirections(centers) ==
    LET n == Len(centers)
        offsets == Offsets(centers)
        away == {Degrees(offsets[i][2], offsets[i][1]) :
                    i \in {j \in 1..n : offsets[j] # <<0, 0>>}}
        step == 360000 \div n
        turns == {0, step, step + 1, 360000 - step, 360000 - step - 1}
    IN  IF ExactFloats([i \in 1..n |-> centers[i][1]])
        THEN IF ExactFloats([i \in 1..n |-> centers[i][2]]) THEN {0}
             ELSE {0, 90000, 270000}
        ELSE IF ExactFloats([i \in 1..n |-> centers[i][2]]) THEN {0, 180000}
        ELSE {0} \cup {(a + t) % 360000 : a \in away, t \in turns}

(* the radial arrangement computed for any number of centres, one or two
   included *)
RadialArrangementAnyCount(centers) == {RadialAt(centers, 0)}

(***************************************************************************)
(* lines 313-349: the values radial_arrangement of the centres can have, 0 *)
(* for fewer than three.  There is one value unless a centre lies on the   *)
(* mean centre and the mean is rounded.  Centres that all coincide then    *)
(* have equal distances, 0 (the guard of line 346 yields 0) or a rounding  *)
(* error (std / mean is 0, dist_uniformity 1).  Otherwise the value        *)
(* depends on the direction of the centre on the mean; where that can be   *)
(* any direction the values fill the range between their extremes.         *)
(***************************************************************************)
RadialArrangement(centers) ==
    LET n == Len(centers)
        offsets == Offsets(centers)
        on_mean == {i \in 1..n : offsets[i] = <<0, 0>>}
        exact_x == ExactFloats([i \in 1..n |-> centers[i][1]])
        exact_y == ExactFloats([i \in 1..n |-> centers[i][2]])
        values == {RadialAt(centers, direction) : direction \in MeanDirections(centers)}
        lowest == CHOOSE v \in values : \A w \in values : v <= w
        highest == CHOOSE v \in values : \A w \in values : v >= w
    IN  IF n <= 2 THEN {0}
        ELSE IF on_mean = {} \/ (exact_x /\ exact_y) THEN {RadialAt(centers, 0)}
        ELSE IF on_mean = 1..n
        THEN {RadialWeighted(AngleUniformity([i \in 1..n |-> 0]), dist_uniformity) :
                 dist_uniformity \in {0, 10000}}
        ELSE IF exact_x \/ exact_y THEN values
        ELSE lowest..highest

(***************************************************************************)
(* line 356: radial_arrangement as the comparison with 0.7 sees it.  The   *)
(* integer computation above takes the distances of n centres in a unit    *)
(* next to 1 / (32000 / n) of the largest, and is within RadialTolerance(n)*)
(* ten-thousandths of the float; a value that close to the threshold can   *)
(* lie on either side of it.                                               *)
(***************************************************************************)
RadialTolerance(n) == 3 + n \div 16

RadialArrangements(centers) ==
    UNION {IF Abs(radial_arrangement - 7000) <= RadialTolerance(Len(centers))
           THEN {Min2(radial_arrangement, 7000), Max2(radial_arrangement, 7001)}
           ELSE {radial_arrangement} :
              radial_arrangement \in RadialArrangement(centers)}

CountOf(types, t) == Cardinality({i \in 1..Len(types) : types[i] = t})

(* the rules with the bar rule tried before the pie rule *)
InferChartTypeBarFirst(types, vertical_alignment, radial_arrangement) ==
    IF "rectangle" \in Range(types) /\ vertical_alignment > 7000 THEN "bar"
    ELSE IF \/ "segment" \in Range(types)
            \/ ("circle" \in Range(types) /\ radial_arrangement > 7000) THEN "pie"
    ELSE IF "point" \in Range(types) /\ CountOf(types, "point") > 2 THEN "line"
    ELSE None

(* lines 354-361: the chart type *)
InferChartType(types, vertical_alignment, radial_arrangement) ==
    IF \/ "segment" \in Range(types)
       \/ ("circle" \in Range(types) /\ radial_arrangement > 7000) THEN "pie"
    ELSE IF "rectangle" \in Range(types) /\ vertical_alignment > 7000 THEN "bar"
    ELSE IF "point" \in Range(types) /\ CountOf(types, "point") > 2 THEN "line"
    ELSE None

(* lines 268-277 and 414-424: the analysis of no shapes *)
NoStructure ==
    [analysis |-> [vertical_alignment |-> 0, horizontal_alignment |-> 0,
                   radial_arrangement |-> 0, grid_pattern |-> 0],
     type |-> None]

(***************************************************************************)
(* ChartDetector.analyze_chart_structure(shapes, shape_types): the         *)
(* structures the call can return, one unless vertical_alignment or        *)
(* radial_arrangement is on its threshold.                                 *)
(***************************************************************************)
analyze_chart_structure(shapes, types) ==
    IF shapes = <<>> THEN {NoStructure}
    ELSE LET centers == [i \in 1..Len(shapes) |-> CenterOf(shapes[i])]
             horizontal_alignment == Alignment([i \in 1..Len(centers) |-> centers[i][2]])
         IN  {[analysis |-> [vertical_alignment |-> vertical_alignment,
                             horizontal_alignment |-> horizontal_alignment,
                             radial_arrangement |-> radial_arrangement,
                             grid_pattern |-> Min2(vertical_alignment, horizontal_alignment)],
               type |-> InferChartType(types, vertical_alignment, radial_arrangement)] :
                 vertical_alignment \in
                     VerticalAlignments([i \in 1..Len(centers) |-> centers[i][1]]),
                 radial_arrangement \in RadialArrangements(centers)}

(***************************************************************************)
(* ChartDetector.detect, lines 379-382: solidity * extent of one shape, in *)
(* hundred-millionths rounded down, with the remainder of the division:    *)
(* <<quotient, remainder>>.                                                *)
(* The integers of the model checker have 32 bits, which the denominator  *)
(* of the product in lowest terms, times 10, has to fit.                   *)
(***************************************************************************)
Product(f) ==
    LET g == GCD(f.solidity[1], f.extent[2])
        h == GCD(f.extent[1], f.solidity[2])
        numerator == (f.solidity[1] \div g) * (f.extent[1] \div h)
        denominator == (f.solidity[2] \div h) * (f.extent[2] \div g)
    IN  Scaled(numerator \div denominator, numerator % denominator, denominator, 8)

(* the sum of the products, in hundred-millionths *)
ProductSum(shape_features) ==
    SumSeq([i \in 1..Len(shape_features) |-> Product(shape_features[i])[1]])

(* how many of the products are not a whole number of hundred-millionths *)
Inexact(shape_features) ==
    Cardinality({i \in 1..Len(shape_features) : Product(shape_features[i])[2] # 0})

(* The confidence as the sum of solidity * extent, not divided by the count. *)
ConfidenceSum(shape_features) ==
    IF Len(shape_features) > 0
    THEN ProductSum(shape_features) \div 10000
    ELSE 0

(***************************************************************************)
(* ChartDetector.detect, lines 379-387: the overall confidence, the mean   *)
(* of solidity * extent, in ten-thousandths rounded down.                  *)
(***************************************************************************)
Confidence(shape_features) ==
    IF Len(shape_features) > 0
    THEN ProductSum(shape_features) \div (10000 * Len(shape_features))
    ELSE 0

(***************************************************************************)
(* Where the float is the exact mean rounded once: a fraction is a float   *)
(* itself when its denominator is a power of two, products and sums of     *)
(* such floats are exact, and so is the product of any float with a power  *)
(* of two or with 0; the quotient of an exact sum by the count is          *)
(* correctly rounded.                                                      *)
(***************************************************************************)
RECURSIVE IsPowerOfTwo(_)
IsPowerOfTwo(n) == n = 1 \/ (n % 2 = 0 /\ IsPowerOfTwo(n \div 2))

IsFloat(ratio) == IsPowerOfTwo(ratio[2])

CorrectlyRounded(shape_features) ==
    \/ \A i \in 1..Len(shape_features) :
          \/ IsFloat(shape_features[i].solidity) /\ IsFloat(shape_features[i].extent)
          \/ shape_features[i].solidity = Zero
          \/ shape_features[i].extent = Zero
    \/ /\ Len(shape_features) = 1
       /\ \/ shape_features[1].solidity[1] = 1 /\ IsFloat(shape_features[1].solidity)
          \/ shape_features[1].extent[1] = 1 /\ IsFloat(shape_features[1].extent)

(***************************************************************************)
(* ChartDetector.detect, lines 379-393: the confidence as the comparison   *)
(* with min_confidence sees it.  The float np.mean returns is within a few *)
(* units of the last place of the exact mean.  Where the exact mean is     *)
(* min_confidence, or within the hundred-millionths the products are       *)
(* rounded by of it, and the float is not the exact mean rounded once, the *)
(* float can lie on either side of the threshold: the confidence is then   *)
(* min_confidence or the ten-thousandth below it.  Everywhere else it is   *)
(* Confidence.                                                             *)
(***************************************************************************)
Confidences(self, shape_features) ==
    LET confidence == Confidence(shape_features)
        threshold == 10000 * Len(shape_features) * self.min_confidence
        sum == ProductSum(shape_features)
        close == /\ Len(shape_features) > 0
                 /\ self.min_confidence > 0
                 /\ sum <= threshold
                 /\ sum + Inexact(shape_features) >= threshold
                 /\ ~CorrectlyRounded(shape_features)
    IN  IF close THEN {self.min_confidence - 1, self.min_confidence} ELSE {confidence}

(* The verdict without the confidence threshold. *)
SuccessAnyShape(self, shapes, confidence) == Len(shapes) > 0

(* ChartDetector.detect, line 393 *)
Success(self, shapes, confidence) ==
    Len(shapes) > 0 /\ confidence >= self.min_confidence

(* An except branch that lets the exception through. *)
ExceptReraise(e) == Raise(e)

(* ChartDetector.detect, lines 406-426: the except branch *)
ExceptHandler(e) ==
    Return([success |-> FALSE,
            shape_count |-> 0,
            shape_types |-> <<>>,
            shapes |-> <<>>,
            features |-> <<>>,
            confidence |-> 0,
            type |-> None,
            details |-> NoStructure,
            error |-> e])

(* ChartDetector.detect, lines 379-404: the results of the try branch, from
   what _detect_shapes_internal returned; one result unless the confidence
   or a structure metric is on its threshold *)
DetectionResult(self, d) ==
    {Return([success |-> Success(self, d.value.shapes, confidence),
             shape_count |-> Len(d.value.shapes),
             shape_types |-> d.value.shape_types,
             shapes |-> d.value.shapes,
             features |-> d.value.shape_features,
             confidence |-> confidence,
             type |-> structure_analysis.type,
             details |-> structure_analysis]) :
        confidence \in Confidences(self, d.value.shape_features),
        structure_analysis \in analyze_chart_structure(d.value.shapes, d.value.shape_types)}

(* ChartDetector.detect: the results the call can return *)
detect(self, img) ==
    LET pre == preprocess_image(img)
    IN  IF pre.raised THEN {ExceptHandler(pre.error)}
        ELSE LET d == _detect_shapes_internal(self, pre.value)
             IN  IF d.raised THEN {ExceptHandler(d.error)}
                 ELSE DetectionResult(self, d)

(***************************************************************************)
(* The detector: one ChartDetector, one image, and the two entry points    *)
(* called on it.                                                           *)
(***************************************************************************)
IdleProbe ==
    /\ detectors = <<>> /\ features = None /\ calls = <<>> /\ line_out = None

IdleExtract ==
    /\ ex_type = None /\ ex_shapes = <<>> /\ ex_features = <<>> /\ ex_result = None

IdleDetect ==
    /\ detector = None /\ image = None /\ result = None /\ detected = None
    /\ twin = None

IdleAnalyze ==
    /\ an_shapes = <<>> /\ an_types = <<>> /\ an_result = None

IdleSession ==
    /\ extractor = None /\ invocations = <<>>

IdleFormat ==
    /\ formatter = None /\ detection_result = None /\ json_out = None
    /\ shape_types = <<>> /\ json_kind = None /\ text_kind = None

IdleLoop == loop = None

IdleApp == requests = <<>> /\ disk = <<>> /\ uuids = {}

IdleRatios == measurement = None /\ ratios = None

InitDetect ==
    /\ detector \in {ChartDetector(c) : c \in Configs}
    /\ image \in Images
    /\ result = None
    /\ detected = None
    /\ done = {}
    /\ twin = None
    /\ IdleProbe
    /\ IdleExtract
    /\ IdleAnalyze
    /\ IdleSession
    /\ IdleFormat
    /\ IdleLoop
    /\ IdleApp
    /\ IdleRatios

(* result = detector.detect(image) *)
Detect ==
    /\ "detect" \notin done
    /\ result' \in detect(detector, image)
    /\ done' = done \cup {"detect"}
    /\ UNCHANGED <<detector, image, detected, detectors, features, calls, line_out,
                   ex_type, ex_shapes, ex_features, ex_result,
                   twin, analyzerVars, sessionVars, formatVars, loopVars, appVars, ratioVars>>

(* detector.detect_shapes(detector.preprocess_image(image), include_features) *)
DetectShapes(include_features) ==
    /\ "detect_shapes" \notin done
    /\ done' = done \cup {"detect_shapes"}
                     \cup (IF include_features THEN {"include_features"} ELSE {})
    /\ detected' = LET pre == preprocess_image(image)
                   IN  IF pre.raised THEN pre
                       ELSE detect_shapes(detector, pre.value, include_features)
    /\ UNCHANGED <<detector, image, result, detectors, features, calls, line_out,
                   ex_type, ex_shapes, ex_features, ex_result,
                   twin, analyzerVars, sessionVars, formatVars, loopVars, appVars, ratioVars>>

(* the values a second configuration gives shape_similarity_threshold *)
SimilarityThresholds == {30, 85}

(* ChartDetector(config) for the configuration of self with another value
   under the key shape_similarity_threshold *)
TwinOf(self, threshold) == [self EXCEPT !.shape_similarity_threshold = threshold]

(* twin = ChartDetector(config with another threshold).detect(image) *)
DetectTwin(threshold) ==
    /\ "twin" \notin done
    /\ threshold # detector.shape_similarity_threshold
    /\ \E r \in detect(TwinOf(detector, threshold), image) :
            twin' = [detector |-> TwinOf(detector, threshold), result |-> r]
    /\ done' = done \cup {"twin"}
    /\ UNCHANGED <<detector, image, result, detected, detectors, features, calls, line_out,
                   ex_type, ex_shapes, ex_features, ex_result,
                   analyzerVars, sessionVars, formatVars, loopVars, appVars, ratioVars>>

NextDetect ==
    \/ Detect
    \/ \E include_features \in BOOLEAN : DetectShapes(include_features)
    \/ \E threshold \in SimilarityThresholds : DetectTwin(threshold)

SpecDetect == InitDetect /\ [][NextDetect]_vars

(***************************************************************************)
(* _detect_shapes_internal step by step: the sort (line 60), then one      *)
(* iteration of the loop (lines 65-100) at a time.  loop holds the locals: *)
(* contours, the index of the next candidate, the three lists and          *)
(* processed_areas in acc, and for each candidate examined so far the      *)
(* branch that ended its iteration (the continue of line 69, the continue  *)
(* of line 90, or the if of line 95 taken or not).                         *)
(***************************************************************************)
BarE == Contour(10, 0, 40, 40, 1520, 1520, 2375, 4, 4, 4, 66, 1560)

LoopContours == {Marker, BarA, BarE, BarD, Blob, Tri}

LoopImages ==
    {[kind |-> "ndarray", cv_error |-> "none", found |-> s] :
        s \in SeqsUpTo(LoopContours, MaxContours)}

InitLoop ==
    /\ detector \in {ChartDetector(c) : c \in Configs}
    /\ image \in LoopImages
    /\ loop = [pc |-> "sort", contours |-> image.found, next |-> 1, fates |-> <<>>,
               acc |-> [shapes |-> <<>>, shape_types |-> <<>>,
                        shape_features |-> <<>>, processed_areas |-> {}]]
    /\ result = None /\ detected = None /\ twin = None
    /\ done = {}
    /\ IdleProbe
    /\ IdleExtract
    /\ IdleAnalyze
    /\ IdleSession
    /\ IdleFormat
    /\ IdleApp
    /\ IdleRatios

(* line 60 *)
SortContours ==
    /\ loop.pc = "sort"
    /\ loop' = [loop EXCEPT !.contours = SortByX(@), !.pc = "loop"]
    /\ UNCHANGED <<detector, image, result, detected, detectors, features, calls,
                   line_out, ex_type, ex_shapes, ex_features, ex_result, done, twin,
                   analyzerVars, sessionVars, formatVars, appVars, ratioVars>>

(* lines 65-100: the iteration on the next candidate, which ends at the
   branch named by fate *)
Iteration(fate) ==
    /\ loop.pc = "loop"
    /\ loop.next <= Len(loop.contours)
    /\ LET contour == loop.contours[loop.next]
           small == contour.area < detector.min_shape_area
           overlap == IsDuplicate(contour.bbox, loop.acc.processed_areas)
           shape_type == _classify_shape(detector, _extract_shape_features(contour))
       IN  /\ fate = IF small THEN "small"
                     ELSE IF overlap THEN "duplicate"
                     ELSE IF shape_type # "unknown" THEN "accepted"
                     ELSE "unknown"
           /\ loop' = [loop EXCEPT !.acc = LoopBody(detector, contour, @),
                                   !.next = @ + 1,
                                   !.fates = Append(@, fate)]
    /\ UNCHANGED <<detector, image, result, detected, detectors, features, calls,
                   line_out, ex_type, ex_shapes, ex_features, ex_result, done, twin,
                   analyzerVars, sessionVars, formatVars, appVars, ratioVars>>

(* line 102: the return once the candidates are exhausted *)
LoopReturn ==
    /\ loop.pc = "loop"
    /\ loop.next > Len(loop.contours)
    /\ loop' = [loop EXCEPT !.pc = "done"]
    /\ UNCHANGED <<detector, image, result, detected, detectors, features, calls,
                   line_out, ex_type, ex_shapes, ex_features, ex_result, done, twin,
                   analyzerVars, sessionVars, formatVars, appVars, ratioVars>>

NextLoop ==
    \/ SortContours
    \/ \E fate \in {"small", "duplicate", "accepted", "unknown"} : Iteration(fate)
    \/ LoopReturn

SpecLoop == InitLoop /\ [][NextLoop]_vars

(***************************************************************************)
(* ChartDataExtractor.  int() of a float drops the fraction, rounding      *)
(* towards zero: int(-1.5) is -1.                                          *)
(***************************************************************************)
(* int(v) of a coordinate held in tenths *)
IntOfTenths(v) == TruncDiv(v, 10)

(* zip(shapes, features): as many pairs as the shorter list has *)
ZipLen(shapes, feats) == Min2(Len(shapes), Len(feats))

(* the pairs zip(shapes, features) yields, as their feature vectors *)
Zipped(shapes, feats) == SubSeq(feats, 1, ZipLen(shapes, feats))

(* the bar with w and h of the bounding box taken in the wrong order *)
BarOfTransposed(feature) ==
    [x |-> feature.bounding_box[1],
     width |-> feature.bounding_box[4],
     height |-> feature.bounding_box[3],
     area |-> feature.area]

(* _extract_bar_data, lines 68-74: the bar of one feature vector *)
BarOf(feature) ==
    [x |-> feature.bounding_box[1],
     width |-> feature.bounding_box[3],
     height |-> feature.bounding_box[4],
     area |-> feature.area]

(* the bars left in the order the loop appended them *)
BarsUnsorted(bars) == bars

(* _extract_bar_data, lines 76-77 *)
SortBars(bars) == SortByKey(bars, [i \in 1..Len(bars) |-> bars[i].x])

(* _extract_bar_data, line 67: feature.get("vertices", 0) == 4 *)
IsRectangleFeature(f) == Get(f, "vertices", 0) = 4

(* ChartDataExtractor._extract_bar_data *)
_extract_bar_data(shapes, feats) ==
    LET rects == SelectSeq(Zipped(shapes, feats), IsRectangleFeature)
        bars == [i \in 1..Len(rects) |-> BarOf(rects[i])]
    IN  [type |-> "bar", bars |-> SortBars(bars)]

(* a point predicate that has drifted from the classifier's: the circularity
   clause asks for more than 0.5 *)
IsLinePointDrifted(f) ==
    LET area == Get(f, "area", 0)
        solidity == Get(f, "solidity", Zero)
        circularity == Get(f, "circularity", Zero)
        vertices == Get(f, "vertices", 0)
        extent == Get(f, "extent", Zero)
    IN  /\ area < 1000 /\ Gt(solidity, 90)
        /\ \/ Gt(circularity, 50)
           \/ (vertices >= 5 /\ vertices <= 8 /\ Gt(extent, 60))
           \/ (area < 400 /\ Gt(extent, 60) /\ Gt(solidity, 95))
           \/ (Gt(solidity, 95) /\ Gt(extent, 70))
           \/ (Gt(circularity, 40) /\ Gt(extent, 65) /\ Gt(solidity, 95))
           \/ (area < 400 /\ Gt(solidity, 95) /\ Gt(extent, 65))
           \/ (area < 500 /\ vertices <= 6 /\ Gt(solidity, 95))

(* _extract_line_data, lines 90-104: the point criteria, on the features
   taken with feature.get(key, 0) *)
IsLinePoint(f) ==
    LET area == Get(f, "area", 0)
        solidity == Get(f, "solidity", Zero)
        circularity == Get(f, "circularity", Zero)
        vertices == Get(f, "vertices", 0)
        extent == Get(f, "extent", Zero)
    IN  /\ area < 1000 /\ Gt(solidity, 90)
        /\ \/ Gt(circularity, 45)
           \/ (vertices >= 5 /\ vertices <= 8 /\ Gt(extent, 60))
           \/ (area < 400 /\ Gt(extent, 60) /\ Gt(solidity, 95))
           \/ (Gt(solidity, 95) /\ Gt(extent, 70))
           \/ (Gt(circularity, 40) /\ Gt(extent, 65) /\ Gt(solidity, 95))
           \/ (area < 400 /\ Gt(solidity, 95) /\ Gt(extent, 65))
           \/ (area < 500 /\ vertices <= 6 /\ Gt(solidity, 95))

(* _extract_line_data, lines 105-110: the point of one feature vector *)
PointOf(feature) ==
    [x |-> IntOfTenths(feature.center[1]),
     y |-> IntOfTenths(feature.center[2]),
     size |-> feature.area]

(* the points sorted by y *)
SortPointsByY(points) == SortByKey(points, [i \in 1..Len(points) |-> points[i].y])

(* _extract_line_data, lines 112-113 *)
SortPoints(points) == SortByKey(points, [i \in 1..Len(points) |-> points[i].x])

(* ChartDataExtractor._extract_line_data *)
_extract_line_data(shapes, feats) ==
    LET kept == SelectSeq(Zipped(shapes, feats), IsLinePoint)
        points == [i \in 1..Len(kept) |-> PointOf(kept[i])]
    IN  [type |-> "line", points |-> SortPoints(points)]

(***************************************************************************)
(* np.degrees(np.arctan2(dy, dx)) % 360 is kept as the direction <<dx, dy>>*)
(* it is the angle of; two directions compare as their angles in [0, 360)  *)
(* do: first by the part of the circle (0, the upper half, 180, the lower  *)
(* half; arctan2(0, 0) is 0), then by the cross product.                   *)
(***************************************************************************)
AnglePart(d) ==
    IF d[2] = 0 /\ d[1] >= 0 THEN 0
    ELSE IF d[2] > 0 THEN 1
    ELSE IF d[2] = 0 THEN 2
    ELSE 3

AngleLess(a, b) ==
    \/ AnglePart(a) < AnglePart(b)
    \/ /\ AnglePart(a) = AnglePart(b)
       /\ AnglePart(a) \in {1, 3}
       /\ a[1] * b[2] - a[2] * b[1] > 0

(* the segments left in the order the loop appended them *)
SegmentsUnsorted(segments) == segments

(* _extract_pie_data, lines 167-168: segments.sort(key=angle), stable *)
SortSegments(segments) ==
    LET n == Len(segments)
        rank(i) == Cardinality({j \in 1..n : AngleLess(segments[j].angle, segments[i].angle)})
                   + Cardinality({j \in 1..(i - 1) :
                                     /\ ~AngleLess(segments[j].angle, segments[i].angle)
                                     /\ ~AngleLess(segments[i].angle, segments[j].angle)}) + 1
    IN  [k \in 1..n |-> segments[CHOOSE i \in 1..n : rank(i) = k]]

(* a segment test that asks for an arc score above 0.5 *)
IsSegmentFeatureStrict(f) == Get(f, "arc_score", 0) > 50

(* _extract_pie_data, lines 130 and 149: the segment test,
   feature.get("arc_score", 0) > 0.3 *)
IsSegmentFeature(f) == Get(f, "arc_score", 0) > 30

(* the share of the total as a fraction of 1, not scaled to a percentage *)
PercentageAsFraction(area, total_area) ==
    IF total_area > 0 THEN (area * 100) \div total_area ELSE 0

(* _extract_pie_data, line 157, in hundredths of a percent *)
Percentage(area, total_area) ==
    IF total_area > 0 THEN (area * 10000) \div total_area ELSE 0

(***************************************************************************)
(* _extract_pie_data, lines 141-145: int(sum(c) / len(centers)) of the     *)
(* coordinates of the centres, held in tenths.  Halves add up exactly, and *)
(* the quotient of an exact sum is correctly rounded.  Other coordinates   *)
(* are not floats themselves and their sum can be off by a few units of    *)
(* the last place; where the exact mean is a whole number, the quotient    *)
(* can fall short of it, and int() then gives the whole number next to it  *)
(* towards zero.                                                           *)
(***************************************************************************)
MeanCoordinates(coords) ==
    LET total == SumSeq(coords)
        n == Len(coords)
        mean == TruncDiv(total, 10 * n)
        halves == \A i \in 1..n : coords[i] % 5 = 0
    IN  IF halves \/ total % (10 * n) # 0 \/ mean = 0 THEN {mean}
        ELSE IF mean > 0 THEN {mean - 1, mean}
        ELSE {mean, mean + 1}

(* ChartDataExtractor._extract_pie_data: the values the call can return,
   one unless the fallback centre is on a whole number *)
_extract_pie_data(shapes, feats) ==
    LET segs == SelectSeq(Zipped(shapes, feats), IsSegmentFeature)
        cx(f) == IntOfTenths(f.center[1])
        cy(f) == IntOfTenths(f.center[2])
        total_area == SumSeq([i \in 1..Len(segs) |-> segs[i].area])
        sum_x == SumSeq([i \in 1..Len(segs) |-> cx(segs[i]) * segs[i].area])
        sum_y == SumSeq([i \in 1..Len(segs) |-> cy(segs[i]) * segs[i].area])
        centers_x == IF total_area > 0 THEN {TruncDiv(sum_x, total_area)}
                     ELSE IF Len(shapes) > 0
                     THEN MeanCoordinates([i \in 1..Len(feats) |-> feats[i].center[1]])
                     ELSE {0}
        centers_y == IF total_area > 0 THEN {TruncDiv(sum_y, total_area)}
                     ELSE IF Len(shapes) > 0
                     THEN MeanCoordinates([i \in 1..Len(feats) |-> feats[i].center[2]])
                     ELSE {0}
        segmentOf(f, center_x, center_y) ==
            [center |-> <<cx(f), cy(f)>>,
             area |-> f.area,
             percentage |-> Percentage(f.area, total_area),
             angle |-> <<cx(f) - center_x, cy(f) - center_y>>,
             arc_score |-> f.arc_score]
    IN  {[type |-> "pie",
          center |-> <<center_x, center_y>>,
          segments |-> SortSegments([i \in 1..Len(segs) |->
                                        segmentOf(segs[i], center_x, center_y)]),
          total_area |-> total_area] :
            center_x \in centers_x, center_y \in centers_y}

(***************************************************************************)
(* The exceptions of the three extractors.  A feature vector is a dict and *)
(* may lack keys.  The tests that select a feature vector read it with     *)
(* feature.get(key, 0); the extractors then read "bounding_box", "center"  *)
(* and "area" by subscript, which raises KeyError on a missing key.  Each  *)
(* operator gives the text of the exception its extractor raises on the    *)
(* arguments, that of the first subscript to fail, or None when the        *)
(* extractor returns.                                                      *)
(***************************************************************************)
Has(feature, key) == key \in DOMAIN feature

(* str(KeyError(key)) *)
KeyErrorText(key) == "'" \o key \o "'"

(* the first of the keys, in the order the code reads them, that the
   feature vector lacks, as the text of its KeyError *)
MissingKey(feature, keys) ==
    IF \E k \in 1..Len(keys) : ~Has(feature, keys[k])
    THEN KeyErrorText(keys[CHOOSE k \in 1..Len(keys) :
                              /\ ~Has(feature, keys[k])
                              /\ \A j \in 1..(k - 1) : Has(feature, keys[j])])
    ELSE None

(* the exception of the first iteration of a loop to raise *)
FirstError(errors) ==
    IF \E i \in 1..Len(errors) : errors[i] # None
    THEN errors[CHOOSE i \in 1..Len(errors) :
                   /\ errors[i] # None
                   /\ \A j \in 1..(i - 1) : errors[j] = None]
    ELSE None

(* _extract_bar_data, lines 66-73: bounding_box is read before area *)
BarError(shapes, feats) ==
    FirstError([i \in 1..ZipLen(shapes, feats) |->
                  IF IsRectangleFeature(feats[i])
                  THEN MissingKey(feats[i], <<"bounding_box", "area">>)
                  ELSE None])

(* _extract_line_data, lines 88-108: center is read before area *)
LineError(shapes, feats) ==
    FirstError([i \in 1..ZipLen(shapes, feats) |->
                  IF IsLinePoint(feats[i])
                  THEN MissingKey(feats[i], <<"center", "area">>)
                  ELSE None])

(* _extract_pie_data, lines 129-132, where area is read before center, and
   lines 141-145 of the fallback, taken when the segments have no area and
   shapes is not empty: it reads the center of every feature vector and
   divides by their number, a ZeroDivisionError when features is empty *)
PieError(shapes, feats) ==
    LET segs == SelectSeq(Zipped(shapes, feats), IsSegmentFeature)
        first == FirstError([i \in 1..ZipLen(shapes, feats) |->
                               IF IsSegmentFeature(feats[i])
                               THEN MissingKey(feats[i], <<"area", "center">>)
                               ELSE None])
    IN  IF first # None THEN first
        ELSE IF SumSeq([i \in 1..Len(segs) |-> segs[i].area]) > 0 THEN None
        ELSE IF shapes = <<>> THEN None
        ELSE IF \E i \in 1..Len(feats) : ~Has(feats[i], "center")
        THEN FirstError([i \in 1..Len(feats) |-> MissingKey(feats[i], <<"center">>)])
        ELSE IF feats = <<>> THEN "division by zero"
        ELSE None

(* an except branch that lets the exception through *)
ExceptBranchReraise(e, chart_type) == Raise(e)

(* extract_data, lines 53-60: the except branch *)
ExceptBranch(e, chart_type) ==
    [success |-> FALSE, error |-> e, type |-> chart_type, data |-> <<>>]

(* a dispatch that treats every chart type it does not know as a bar chart *)
ExtractDataDefaultBar(img, chart_type, shapes, feats) ==
    IF shapes = <<>> \/ feats = <<>>
    THEN {[success |-> FALSE, error |-> "No shapes detected", type |-> chart_type,
           data |-> <<>>]}
    ELSE IF chart_type = "line"
    THEN {[success |-> TRUE, type |-> chart_type, data |-> _extract_line_data(shapes, feats)]}
    ELSE IF chart_type = "pie"
    THEN {[success |-> TRUE, type |-> chart_type, data |-> data] :
             data \in _extract_pie_data(shapes, feats)}
    ELSE {[success |-> TRUE, type |-> chart_type, data |-> _extract_bar_data(shapes, feats)]}

(***************************************************************************)
(* ChartDataExtractor.extract_data: the values the call can return, one    *)
(* unless _extract_pie_data has two.  chart_type is a str or None; the     *)
(* f-string renders None as the text "None", which is what the model keeps *)
(* None as.  None of the three extractors reads the image.  An exception   *)
(* of an extractor is caught by the except branch of lines 53-60.          *)
(***************************************************************************)
extract_data(img, chart_type, shapes, feats) ==
    IF shapes = <<>> \/ feats = <<>>
    THEN {[success |-> FALSE, error |-> "No shapes detected", type |-> chart_type,
           data |-> <<>>]}
    ELSE IF chart_type = "bar"
    THEN IF BarError(shapes, feats) # None
         THEN {ExceptBranch(BarError(shapes, feats), chart_type)}
         ELSE {[success |-> TRUE, type |-> chart_type,
                data |-> _extract_bar_data(shapes, feats)]}
    ELSE IF chart_type = "line"
    THEN IF LineError(shapes, feats) # None
         THEN {ExceptBranch(LineError(shapes, feats), chart_type)}
         ELSE {[success |-> TRUE, type |-> chart_type,
                data |-> _extract_line_data(shapes, feats)]}
    ELSE IF chart_type = "pie"
    THEN IF PieError(shapes, feats) # None
         THEN {ExceptBranch(PieError(shapes, feats), chart_type)}
         ELSE {[success |-> TRUE, type |-> chart_type, data |-> data] :
                  data \in _extract_pie_data(shapes, feats)}
    ELSE {[success |-> FALSE, error |-> "Unsupported chart type: " \o chart_type,
           type |-> chart_type, data |-> <<>>]}

(***************************************************************************)
(* The classifier probed: one feature vector, passed to _classify_shape of *)
(* two ChartDetector instances with different configurations, any number   *)
(* of times in any order, and to _extract_line_data as a one-shape list.   *)
(* The vectors take, for each feature, the values on and just past each    *)
(* threshold the classifier compares it with.                              *)
(***************************************************************************)
FeatureVectors ==
    [area : {80, 399, 400, 499, 500, 999, 1000, 1001},
     vertices : {3, 4, 5, 6, 8, 9},
     solidity : {Hundredths(k) : k \in {80, 81, 90, 91, 95, 96}},
     circularity : {Hundredths(k) : k \in {19, 20, 40, 41, 45, 46, 80, 81, 90, 91}},
     extent : {Hundredths(k) : k \in {60, 61, 65, 66, 70, 71, 85, 86}},
     arc_score : {30, 31},
     aspect_ratio : {Hundredths(100)},
     center : {<<152, 300>>},
     bounding_box : {<<10, 25, 10, 10>>}]

InitClassify ==
    /\ detectors = <<ChartDetector(EmptyConfig),
                     ChartDetector([k \in {"min_shape_area"} |-> 100])>>
    /\ features \in FeatureVectors
    /\ calls = <<>>
    /\ line_out = None
    /\ done = {}
    /\ IdleDetect
    /\ IdleExtract
    /\ IdleAnalyze
    /\ IdleSession
    /\ IdleFormat
    /\ IdleLoop
    /\ IdleApp
    /\ IdleRatios

(* detectors[d]._classify_shape(features) *)
ClassifyCall(d) ==
    /\ Len(calls) < MaxCalls
    /\ calls' = Append(calls, [det |-> d,
                               category |-> _classify_shape(detectors[d], features)])
    /\ UNCHANGED <<detector, image, result, detected, detectors, features, line_out,
                   ex_type, ex_shapes, ex_features, ex_result, done,
                   twin, analyzerVars, sessionVars, formatVars, loopVars, appVars, ratioVars>>

(* ChartDataExtractor()._extract_line_data([shape], [features]) *)
ExtractLineCall ==
    /\ "_extract_line_data" \notin done
    /\ line_out' = _extract_line_data(<<"contour">>, <<features>>)
    /\ done' = done \cup {"_extract_line_data"}
    /\ UNCHANGED <<detector, image, result, detected, detectors, features, calls,
                   ex_type, ex_shapes, ex_features, ex_result,
                   twin, analyzerVars, sessionVars, formatVars, loopVars, appVars, ratioVars>>

NextClassify ==
    \/ \E d \in DOMAIN detectors : ClassifyCall(d)
    \/ ExtractLineCall

SpecClassify == InitClassify /\ [][NextClassify]_vars

(***************************************************************************)
(* The extractor called on lists of feature vectors: those the feature     *)
(* extractor computes for the contours below.  shapes is a list of         *)
(* contours, of which the extractor reads only the length.                 *)
(***************************************************************************)
MarkerWide == Contour(0, 100, 11, 10, 88, 88, 110, 8, 8, 8, 90, 360)
NarrowBar == Contour(10, 50, 10, 40, 380, 380, 950, 4, 4, 4, 60, 960)
TallBar == Contour(10, 50, 10, 200, 1900, 1900, 38000, 4, 4, 4, 35, 4160)
Wedge2 == Contour(120, 60, 60, 60, 2700, 3000, 5400, 7, 6, 5, 45, 2100)

ExtractInputs ==
    {_extract_shape_features(c) :
        c \in {Marker, MarkerWide, NarrowBar, BarA, TallBar, Wedge, Wedge2, Tri}}

ChartTypes == {"bar", "line", "pie", "scatter", None}

(* the images the shapes were found in: shape = (height, width) *)
ExtractImages ==
    {[kind |-> "ndarray", shape |-> <<height, 400>>] : height \in {250, 400}}

InitExtract ==
    /\ ex_type \in ChartTypes
    /\ image \in ExtractImages
    /\ ex_features \in SeqsUpTo(ExtractInputs, MaxShapes)
    /\ ex_shapes \in {[i \in 1..n |-> "contour"] :
                         n \in {Len(ex_features), Len(ex_features) - 1} \cap Nat}
    /\ ex_result = None
    /\ done = {}
    /\ detector = None /\ result = None /\ detected = None /\ twin = None
    /\ IdleProbe
    /\ IdleAnalyze
    /\ IdleSession
    /\ IdleFormat
    /\ IdleLoop
    /\ IdleApp
    /\ IdleRatios

(* ex_result = ChartDataExtractor().extract_data(image, ex_type, ex_shapes, ex_features) *)
ExtractData ==
    /\ "extract_data" \notin done
    /\ ex_result' \in extract_data(image, ex_type, ex_shapes, ex_features)
    /\ done' = done \cup {"extract_data"}
    /\ UNCHANGED <<detector, image, result, detected, detectors, features, calls,
                   line_out, ex_type, ex_shapes, ex_features,
                   twin, analyzerVars, sessionVars, formatVars, loopVars, appVars, ratioVars>>

NextExtract == ExtractData

SpecExtract == InitExtract /\ [][NextExtract]_vars

(***************************************************************************)
(* extract_data on feature vectors that may lack the keys the extractors   *)
(* read by subscript.                                                      *)
(***************************************************************************)
(* the dict without one of its keys *)
Without(feature, key) == [k \in DOMAIN feature \ {key} |-> feature[k]]

PartialInputs ==
    { _extract_shape_features(BarA), _extract_shape_features(Marker),
      Without(_extract_shape_features(BarA), "bounding_box"),
      Without(_extract_shape_features(BarA), "center"),
      Without(_extract_shape_features(Marker), "center"),
      Without(_extract_shape_features(Wedge), "center"),
      Without(_extract_shape_features(BarA), "area"),
      Without(_extract_shape_features(Marker), "solidity"),
      Without(_extract_shape_features(Wedge), "area"),
      Without(Without(_extract_shape_features(Wedge), "area"), "center") }

InitExtractPartial ==
    /\ ex_type \in ChartTypes
    /\ image = [kind |-> "ndarray", shape |-> <<400, 400>>]
    /\ ex_features \in SeqsUpTo(PartialInputs, MaxShapes)
    /\ ex_shapes \in {[i \in 1..n |-> "contour"] :
                         n \in {Len(ex_features), Len(ex_features) - 1} \cap Nat}
    /\ ex_result = None
    /\ done = {}
    /\ detector = None /\ result = None /\ detected = None /\ twin = None
    /\ IdleProbe
    /\ IdleAnalyze
    /\ IdleSession
    /\ IdleFormat
    /\ IdleLoop
    /\ IdleApp
    /\ IdleRatios

SpecExtractPartial == InitExtractPartial /\ [][NextExtract]_vars

(***************************************************************************)
(* The pipeline: detect on an image, then extract_data on the shapes and   *)
(* features of the result, with a chart type the caller names or with the  *)
(* type the detection resolved.                                            *)
(***************************************************************************)
PipelineContours == {Marker, MarkerWide, NarrowBar, BarA, TallBar, Wedge, Tri, Disc}

PipelineImages ==
    {[kind |-> "ndarray", cv_error |-> "none", found |-> s] :
        s \in SeqsUpTo(PipelineContours, MaxContours)}

InitPipeline ==
    /\ detector \in {ChartDetector(EmptyConfig), ChartDetector([k \in {"min_shape_area"} |-> 100])}
    /\ image \in PipelineImages
    /\ result = None /\ detected = None /\ twin = None
    /\ done = {}
    /\ IdleProbe
    /\ IdleExtract
    /\ IdleAnalyze
    /\ IdleSession
    /\ IdleFormat
    /\ IdleLoop
    /\ IdleApp
    /\ IdleRatios

(* ex_result = ChartDataExtractor().extract_data(image, chart_type,
   result["shapes"], result["features"]); the caller passes result["type"]
   when chart_type is "resolved" *)
ExtractDetected(chart_type) ==
    /\ "detect" \in done
    /\ "extract_data" \notin done
    /\ ex_type' = IF chart_type = "resolved" THEN result.value.type ELSE chart_type
    /\ ex_shapes' = result.value.shapes
    /\ ex_features' = result.value.features
    /\ ex_result' \in extract_data(image, ex_type', ex_shapes', ex_features')
    /\ done' = done \cup {"extract_data", chart_type}
    /\ UNCHANGED <<detector, image, result, detected, detectors, features, calls,
                   line_out, twin, analyzerVars, sessionVars, formatVars, loopVars, appVars, ratioVars>>

NextPipeline ==
    \/ Detect
    \/ \E chart_type \in {"bar", "line", "pie", "resolved"} : ExtractDetected(chart_type)

SpecPipeline == InitPipeline /\ [][NextPipeline]_vars

(***************************************************************************)
(* The structural analyzer called on its own: analyze_chart_structure is a *)
(* public method that takes any list of contours with any list of          *)
(* categories.  The shapes are placed so that their centres form an even   *)
(* triad (Top, Left, Right), a concentric group (Frame, Ring, Dot) and a   *)
(* vertical stack (Top, Frame, Slice); Tick has no area, so its centre is  *)
(* that of its bounding box.                                               *)
(***************************************************************************)
Top   == Contour(20, 0, 20, 20, 300, 300, 320, 8, 8, 8, 90, 680)
Left  == Contour(8, 35, 10, 10, 80, 80, 100, 8, 8, 8, 90, 340)
Right == Contour(42, 35, 10, 10, 80, 80, 100, 8, 8, 8, 90, 340)
Frame == Contour(10, 10, 40, 40, 1520, 1520, 2400, 4, 4, 4, 60, 1560)
Ring  == Contour(20, 20, 20, 20, 300, 300, 320, 8, 8, 8, 90, 680)
Dot   == Contour(27, 27, 6, 6, 30, 30, 36, 8, 8, 8, 90, 198)
Slice == Contour(20, 50, 20, 20, 200, 220, 400, 7, 6, 5, 50, 620)
Tick  == Contour(0, 0, 10, 10, 0, 0, 80, 3, 3, 3, 0, 254)

PlacedShapes ==
    { [shape |-> Top, type |-> "circle"],
      [shape |-> Left, type |-> "point"],
      [shape |-> Right, type |-> "point"],
      [shape |-> Frame, type |-> "rectangle"],
      [shape |-> Ring, type |-> "circle"],
      [shape |-> Dot, type |-> "point"],
      [shape |-> Slice, type |-> "segment"],
      [shape |-> Tick, type |-> "triangle"] }

InitAnalyze ==
    /\ \E placed \in DistinctSeqsUpTo(PlacedShapes, MaxAnalyzed) :
          /\ an_shapes = [i \in 1..Len(placed) |-> placed[i].shape]
          /\ an_types = [i \in 1..Len(placed) |-> placed[i].type]
    /\ an_result = None
    /\ done = {}
    /\ IdleDetect
    /\ IdleProbe
    /\ IdleExtract
    /\ IdleSession
    /\ IdleFormat
    /\ IdleLoop
    /\ IdleApp
    /\ IdleRatios

(* an_result = ChartDetector().analyze_chart_structure(an_shapes, an_types) *)
Analyze ==
    /\ "analyze_chart_structure" \notin done
    /\ an_result' \in analyze_chart_structure(an_shapes, an_types)
    /\ done' = done \cup {"analyze_chart_structure"}
    /\ UNCHANGED <<detector, image, result, detected, detectors, features, calls,
                   line_out, ex_type, ex_shapes, ex_features, ex_result,
                   twin, an_shapes, an_types, sessionVars, formatVars, loopVars, appVars, ratioVars>>

NextAnalyze == Analyze

SpecAnalyze == InitAnalyze /\ [][NextAnalyze]_vars

(***************************************************************************)
(* Invocations sharing one ChartDetector and one ChartDataExtractor, their *)
(* steps interleaved in every order.  An invocation is either the pipeline *)
(* (detect, then extract_data with the type and the lists of the result)   *)
(* or preprocess_image followed by detect_shapes.  Each step keeps its     *)
(* intermediate values in locals of the invocation and reads the shared    *)
(* instance where the code reads self.                                     *)
(***************************************************************************)
ChartDataExtractor(config) == [config |-> config]

SessionImages ==
    { [kind |-> "str", cv_error |-> "none", found |-> <<>>],
      [kind |-> "ndarray", cv_error |-> "none", found |-> <<>>],
      [kind |-> "ndarray", cv_error |-> "none", found |-> <<Tri, Marker>>],
      [kind |-> "ndarray", cv_error |-> "none", found |-> <<BarA, Disc, BarC>>],
      [kind |-> "ndarray", cv_error |-> "none", found |-> <<Wedge, Speck>>] }

Invocation(op, img) ==
    [op |-> op, image |-> img, pc |-> "preprocess", local |-> Return(img),
     out |-> Return(None)]

InitSession ==
    /\ detector \in {ChartDetector(c) : c \in Configs}
    /\ detectors = <<detector>>
    /\ extractor = ChartDataExtractor(EmptyConfig)
    /\ invocations \in [1..MaxCalls ->
                           {Invocation(op, img) : op \in {"pipeline", "detect_shapes"},
                                                  img \in SessionImages}]
    /\ done = {}
    /\ image = None /\ result = None /\ detected = None /\ twin = None
    /\ features = None /\ calls = <<>> /\ line_out = None
    /\ IdleExtract
    /\ IdleAnalyze
    /\ IdleFormat
    /\ IdleLoop
    /\ IdleApp
    /\ IdleRatios

(* a detector that raises its min_shape_area to just above the first shape
   it has accepted *)
SelfAfterDetectShapesAdapting(self, d) ==
    IF d.raised \/ d.value.shapes = <<>> THEN self
    ELSE [self EXCEPT !.min_shape_area = Max2(@, d.value.shapes[1].area + 1)]

(* _detect_shapes_internal, lines 48-102: shapes, shape_types,
   shape_features and processed_areas are locals; no attribute of self is
   assigned *)
SelfAfterDetectShapes(self, d) == self

(* the step of invocation i at detector.preprocess_image(image) *)
StepPreprocess(i) ==
    /\ invocations[i].pc = "preprocess"
    /\ invocations' = [invocations EXCEPT
                          ![i].local = preprocess_image(invocations[i].image),
                          ![i].pc = "find"]
    /\ UNCHANGED <<detector, extractor>>

(* the step at _detect_shapes_internal(processed); detect_shapes returns
   here, and an exception leaves detect_shapes as it is *)
StepDetectShapes(i) ==
    /\ invocations[i].pc = "find"
    /\ LET inv == invocations[i]
           d == IF inv.local.raised THEN inv.local
                ELSE _detect_shapes_internal(detector, inv.local.value)
       IN  /\ invocations' = [invocations EXCEPT
                                 ![i].local = d,
                                 ![i].pc = IF inv.op = "detect_shapes" THEN "done"
                                           ELSE "score",
                                 ![i].out = IF inv.op = "detect_shapes" THEN d ELSE @]
           /\ detector' = SelfAfterDetectShapes(detector, d)
    /\ UNCHANGED extractor

(* the step of detect at the confidence, the structure analysis and the
   result, or at the except branch *)
StepScore(i) ==
    /\ invocations[i].pc = "score"
    /\ \E r \in IF invocations[i].local.raised
                 THEN {ExceptHandler(invocations[i].local.error)}
                 ELSE DetectionResult(detector, invocations[i].local) :
           invocations' = [invocations EXCEPT ![i].local = r, ![i].pc = "extract"]
    /\ UNCHANGED <<detector, extractor>>

(* the step at extractor.extract_data(image, result["type"], result["shapes"],
   result["features"]) *)
StepExtract(i) ==
    /\ invocations[i].pc = "extract"
    /\ LET inv == invocations[i]
           r == inv.local.value
       IN  \E data \in extract_data(inv.image, r.type, r.shapes, r.features) :
              invocations' = [invocations EXCEPT
                                 ![i].out = Return([detection |-> r, data |-> data]),
                                 ![i].pc = "done"]
    /\ UNCHANGED <<detector, extractor>>

NextSession ==
    \E i \in DOMAIN invocations :
        /\ \/ StepPreprocess(i)
           \/ StepDetectShapes(i)
           \/ StepScore(i)
           \/ StepExtract(i)
        /\ UNCHANGED <<image, result, detected, detectors, features, calls, line_out,
                       ex_type, ex_shapes, ex_features, ex_result, done, twin,
                       analyzerVars, formatVars, loopVars, appVars, ratioVars>>

SpecSession == InitSession /\ [][NextSession]_vars

(***************************************************************************)
(* The report formatters (src/llimage/output/json.py, text.py): the two    *)
(* inferences of the chart kind from the list of shape types.  An f-string *)
(* is kept as the sequence of its parts.                                   *)
(***************************************************************************)

(* the bar rule asking for at least one rectangle *)
InferChartTypeOneBar(types) ==
    IF CountOf(types, "segment") > 0 THEN "pie_chart"
    ELSE IF CountOf(types, "rectangle") >= 1 THEN "bar_chart"
    ELSE IF CountOf(types, "point") > 2 THEN "line_chart"
    ELSE IF CountOf(types, "circle") = 1 THEN "pie_chart"
    ELSE None

(* JsonFormatter._infer_chart_type, json.py lines 153-177; a type is in
   type_counts when its count is above 0 *)
_infer_chart_type(types) ==
    IF CountOf(types, "segment") > 0 THEN "pie_chart"
    ELSE IF CountOf(types, "rectangle") > 0 /\ CountOf(types, "rectangle") > 1
    THEN "bar_chart"
    ELSE IF CountOf(types, "point") > 0 /\ CountOf(types, "point") > 2
    THEN "line_chart"
    ELSE IF CountOf(types, "circle") > 0 /\ CountOf(types, "circle") = 1
    THEN "pie_chart"
    ELSE None

(* TextFormatter._infer_chart_description, text.py lines 85-109 *)
_infer_chart_description(types) ==
    IF CountOf(types, "segment") > 0
    THEN <<"Pie Chart with ", CountOf(types, "segment"), " segments">>
    ELSE IF CountOf(types, "rectangle") > 0 /\ CountOf(types, "rectangle") > 1
    THEN <<"Bar Chart with ", CountOf(types, "rectangle"), " bars">>
    ELSE IF CountOf(types, "point") > 0 /\ CountOf(types, "point") > 2
    THEN <<"Line Chart with ", CountOf(types, "point"), " data points">>
    ELSE IF CountOf(types, "circle") > 0 /\ CountOf(types, "circle") = 1
    THEN <<"Empty or unprocessed Pie Chart">>
    ELSE <<"Unrecognized Chart Type">>

(* the categories the detector emits, and one it never does *)
ShapeTypeNames == {"point", "rectangle", "triangle", "circle", "segment", "star"}

InitInfer ==
    /\ shape_types \in SeqsUpTo(ShapeTypeNames, MaxTypes)
    /\ json_kind = None
    /\ text_kind = None
    /\ formatter = None /\ detection_result = None /\ json_out = None
    /\ done = {}
    /\ IdleDetect
    /\ IdleProbe
    /\ IdleExtract
    /\ IdleAnalyze
    /\ IdleSession
    /\ IdleLoop
    /\ IdleApp
    /\ IdleRatios

(* json_kind = JsonFormatter()._infer_chart_type(shape_types) *)
InferJson ==
    /\ "_infer_chart_type" \notin done
    /\ json_kind' = _infer_chart_type(shape_types)
    /\ done' = done \cup {"_infer_chart_type"}
    /\ UNCHANGED <<detector, image, result, detected, detectors, features, calls,
                   line_out, ex_type, ex_shapes, ex_features, ex_result, twin,
                   analyzerVars, sessionVars, formatter, detection_result, json_out,
                   shape_types, text_kind,
                   loopVars, appVars, ratioVars>>

(* text_kind = TextFormatter()._infer_chart_description(shape_types) *)
InferText ==
    /\ "_infer_chart_description" \notin done
    /\ text_kind' = _infer_chart_description(shape_types)
    /\ done' = done \cup {"_infer_chart_description"}
    /\ UNCHANGED <<detector, image, result, detected, detectors, features, calls,
                   line_out, ex_type, ex_shapes, ex_features, ex_result, twin,
                   analyzerVars, sessionVars, formatter, detection_result, json_out,
                   shape_types, json_kind,
                   loopVars, appVars, ratioVars>>

NextInfer ==
    \/ InferJson
    \/ InferText

SpecInfer == InitInfer /\ [][NextInfer]_vars

(***************************************************************************)
(* JsonFormatter (src/llimage/output/json.py).  A dict is a function on    *)
(* its keys; a KeyError is the text str() gives it, the key in quotes.     *)
(* json.dumps(sort_keys=True) is kept as the list of members in key order, *)
(* nested dicts included, with the indent.                                 *)
(***************************************************************************)

(* JsonFormatter.__init__, lines 26-31 *)
JsonFormatter(config) ==
    [detail_level |-> Get(config, "detail_level", "standard"),
     include_metadata |-> Get(config, "include_metadata", TRUE),
     include_confidence |-> Get(config, "include_confidence", TRUE),
     include_features |-> Get(config, "include_features", FALSE),
     pretty_print |-> Get(config, "pretty_print", TRUE)]

(* JsonFormatter._format_metadata, lines 35-41; now is
   datetime.utcnow().isoformat() *)
_format_metadata(self, now) ==
    [timestamp |-> now, formatter_version |-> "1.0.0", detail_level |-> self.detail_level]

(* str(KeyError(key)) *)
KeyError(key) == "'" \o key \o "'"

(* the first of the keys, in the order the code reads them, that the dict
   lacks *)
FirstMissing(dict, keys) ==
    LET missing == SelectSeq(keys, LAMBDA k : k \notin DOMAIN dict)
    IN  IF Len(missing) = 0 THEN None ELSE missing[1]

(* the keys _format_shape reads from features, lines 58-83, in order *)
ShapeKeys(self) ==
    <<"bounding_box">>
    \o (IF self.include_confidence THEN <<"solidity", "circularity", "extent">> ELSE <<>>)
    \o (IF self.include_features
        THEN <<"area", "perimeter", "aspect_ratio", "vertices", "center">> ELSE <<>>)

(* JsonFormatter._format_shape, lines 43-93; int() of a centre kept in
   tenths of a pixel drops the tenths, toward zero *)
_format_shape(self, shape, shape_type, feats) ==
    LET missing == FirstMissing(feats, ShapeKeys(self))
        bounds == [x |-> feats["bounding_box"][1], y |-> feats["bounding_box"][2],
                   width |-> feats["bounding_box"][3], height |-> feats["bounding_box"][4]]
        confidence_scores == [solidity |-> feats["solidity"],
                              circularity |-> feats["circularity"],
                              extent |-> feats["extent"]]
        detailed == [k \in {"area", "perimeter", "aspect_ratio", "vertices", "center"}
                          \cup (IF "arc_score" \in DOMAIN feats THEN {"arc_score"} ELSE {}) |->
                        IF k = "center"
                        THEN [x |-> IntOfTenths(feats["center"][1]),
                              y |-> IntOfTenths(feats["center"][2])]
                        ELSE feats[k]]
    IN  IF missing # None THEN Raise(KeyError(missing))
        ELSE Return([k \in {"type", "bounds"}
                          \cup (IF self.include_confidence THEN {"confidence_scores"} ELSE {})
                          \cup (IF self.include_features THEN {"features"} ELSE {}) |->
                        CASE k = "type" -> shape_type
                          [] k = "bounds" -> bounds
                          [] k = "confidence_scores" -> confidence_scores
                          [] k = "features" -> detailed])

(* the keys of the output in the order sort_keys=True writes them *)
KeyOrder ==
    <<"arc_score", "area", "aspect_ratio", "bounds", "center", "chart_type",
      "circularity", "confidence_scores", "detail_level", "error", "extent",
      "features", "formatter_version", "height", "metadata", "perimeter",
      "shape_count", "shapes", "solidity", "success", "timestamp", "type",
      "vertices", "width", "x", "y">>

Members(dict) ==
    LET keys == SelectSeq(KeyOrder, LAMBDA k : k \in DOMAIN dict)
    IN  [i \in 1..Len(keys) |-> <<keys[i], dict[keys[i]]>>]

DumpShape(shape_data) ==
    Members([k \in DOMAIN shape_data |->
                CASE k \in {"bounds", "confidence_scores"} -> Members(shape_data[k])
                  [] k = "features" ->
                        Members([j \in DOMAIN shape_data[k] |->
                                    IF j = "center" THEN Members(shape_data[k][j])
                                    ELSE shape_data[k][j]])
                  [] OTHER -> shape_data[k]])

(* JsonFormatter._serialize, lines 179-190 *)
_serialize(self, data) ==
    [indent |-> IF self.pretty_print THEN 2 ELSE None,
     members |-> Members([k \in DOMAIN data |->
                             CASE k = "metadata" -> Members(data[k])
                               [] k = "shapes" ->
                                     [i \in 1..Len(data[k]) |-> DumpShape(data[k][i])]
                               [] OTHER -> data[k]])]

(* an except branch that lets the exception through *)
FormatExceptReraise(self, e, now) == Raise(e)

(* JsonFormatter.format_result, lines 142-151: the except branch *)
FormatExcept(self, e, now) ==
    Return(_serialize(self,
        [k \in {"success", "error"}
               \cup (IF self.include_metadata THEN {"metadata"} ELSE {}) |->
            CASE k = "success" -> FALSE
              [] k = "error" -> "JSON formatting error: " \o e
              [] k = "metadata" -> _format_metadata(self, now)]))

(* JsonFormatter.format_result, lines 103-140: the try branch once success
   and shape_count have been read *)
FormatTry(self, dr, now) ==
    LET meta == IF self.include_metadata THEN {"metadata"} ELSE {}
        missing == FirstMissing(dr, <<"shapes", "shape_types", "features">>)
        n == Min2(Len(dr["shapes"]), Min2(Len(dr["shape_types"]), Len(dr["features"])))
        formatted == [i \in 1..n |->
                         _format_shape(self, dr["shapes"][i], dr["shape_types"][i],
                                       dr["features"][i])]
        failed == {i \in 1..n : formatted[i].raised}
        shapes_data == [i \in 1..n |-> formatted[i].value]
        chart_type == _infer_chart_type(dr["shape_types"])
        keys == {"success", "shape_count", "shapes"} \cup meta
                \cup (IF n > 0 /\ chart_type # None THEN {"chart_type"} ELSE {})
    IN  IF "error" \in DOMAIN dr
        THEN Return(_serialize(self,
                 [k \in {"success", "shape_count", "error"} \cup meta |->
                     CASE k = "metadata" -> _format_metadata(self, now)
                       [] OTHER -> dr[k]]))
        ELSE IF missing # None THEN FormatExcept(self, KeyError(missing), now)
        ELSE IF failed # {}
        THEN FormatExcept(self, formatted[CHOOSE i \in failed : \A j \in failed : i <= j].error,
                          now)
        ELSE Return(_serialize(self,
                 [k \in keys |->
                     CASE k = "metadata" -> _format_metadata(self, now)
                       [] k = "shapes" -> shapes_data
                       [] k = "chart_type" -> chart_type
                       [] OTHER -> dr[k]]))

(* JsonFormatter.format_result, lines 95-151 *)
format_result(self, dr, now) ==
    LET missing == FirstMissing(dr, <<"success", "shape_count">>)
    IN  IF missing # None THEN FormatExcept(self, KeyError(missing), now)
        ELSE FormatTry(self, dr, now)

(***************************************************************************)
(* The formatter on detection results: what detect returns for a few       *)
(* images, the error result of the formatter's test, and results with a    *)
(* key left out.                                                           *)
(***************************************************************************)
JsonConfigs ==
    { EmptyConfig,
      [k \in {"include_metadata"} |-> FALSE],
      [k \in {"include_features"} |-> TRUE],
      [k \in {"include_confidence", "pretty_print"} |-> FALSE] }

(* what detect returns for the image *)
Detected(img) == {r.value : r \in detect(ChartDetector(EmptyConfig), img)}

FormattedImages ==
    {[kind |-> "str", cv_error |-> "none", found |-> <<>>]}
    \cup {[kind |-> "ndarray", cv_error |-> "none", found |-> s] :
              s \in SeqsUpTo({Marker, BarA, BarD, Wedge, Disc}, MaxFormatted)}

DetectionResults ==
    LET whole == UNION {Detected(img) : img \in FormattedImages}
        dropped == {<<r, k>> \in whole \X {"success", "shape_count", "shapes",
                                           "shape_types", "features"} :
                        Len(r.shapes) <= 1}
        bare == {<<r, k>> \in whole \X {"bounding_box", "extent", "perimeter"} :
                        Len(r.shapes) = 2}
    IN  whole
        \cup {[success |-> FALSE, shape_count |-> 0, error |-> "Test error message"]}
        \cup {Without(p[1], p[2]) : p \in dropped}
        \cup {[p[1] EXCEPT !.features[2] = Without(@, p[2])] : p \in bare}

Clock == {"2024-01-01T00:00:00", "2024-01-01T00:00:01"}

InitFormat ==
    /\ formatter \in {JsonFormatter(c) : c \in JsonConfigs}
    /\ detection_result \in DetectionResults
    /\ json_out = None
    /\ shape_types = <<>> /\ json_kind = None /\ text_kind = None
    /\ done = {}
    /\ IdleDetect
    /\ IdleProbe
    /\ IdleExtract
    /\ IdleAnalyze
    /\ IdleSession
    /\ IdleLoop
    /\ IdleApp
    /\ IdleRatios

(* json_out = formatter.format_result(detection_result) *)
FormatJson(now) ==
    /\ "format_result" \notin done
    /\ json_out' = format_result(formatter, detection_result, now)
    /\ done' = done \cup {"format_result"}
    /\ UNCHANGED <<detector, image, result, detected, detectors, features, calls,
                   line_out, ex_type, ex_shapes, ex_features, ex_result, twin,
                   analyzerVars, sessionVars, formatter, detection_result,
                   shape_types, json_kind, text_kind,
                   loopVars, appVars, ratioVars>>

NextFormat == \E now \in Clock : FormatJson(now)

SpecFormat == InitFormat /\ [][NextFormat]_vars

(***************************************************************************)
(* The divisions on their own: _extract_shape_features (lines 121-187) on  *)
(* the points of a contour, and the radial arrangement (lines 313-349) on  *)
(* the centres of a chart, degenerate ones included.  A contour is the     *)
(* sequence of its points <<x, y>>, as cv2.findContours gives it.  Areas   *)
(* are carried doubled, which keeps them integers; a ratio of two areas is *)
(* the ratio of their doubles.  The area of the enclosing circle is a      *)
(* float of cv2 and numpy, carried as a measurement in whole pixels.  The  *)
(* scores are in ten-thousandths, angles in thousandths of a degree.       *)
(***************************************************************************)
Cross(p, q) == p[1] * q[2] - p[2] * q[1]

Following(points, i) == points[(i % Len(points)) + 1]

(* twice the signed area the closed contour encloses *)
Shoelace(points) ==
    SumSeq([i \in 1..Len(points) |-> Cross(points[i], Following(points, i))])

(* line 121: cv2.contourArea, doubled *)
TwiceContourArea(points) == Abs(Shoelace(points))

(* line 123: cv2.boundingRect, the box of the pixels of the points *)
boundingRect(points) ==
    LET xs == [i \in 1..Len(points) |-> points[i][1]]
        ys == [i \in 1..Len(points) |-> points[i][2]]
    IN  [x |-> MinSeq(xs), y |-> MinSeq(ys),
         w |-> MaxSeq(xs) - MinSeq(xs) + 1, h |-> MaxSeq(ys) - MinSeq(ys) + 1]

(* whether r lies to the left of the line from p to q (positive), on it
   (zero) or to its right *)
Turn(p, q, r) == (q[1] - p[1]) * (r[2] - p[2]) - (q[2] - p[2]) * (r[1] - p[1])

Within(p, q, r) ==
    /\ Min2(p[1], q[1]) <= r[1] /\ r[1] <= Max2(p[1], q[1])
    /\ Min2(p[2], q[2]) <= r[2] /\ r[2] <= Max2(p[2], q[2])

(* line 126: the sides of cv2.convexHull, each from one corner to the next
   with every point of the contour on its left or on the side itself *)
convexHull(points) ==
    {side \in Range(points) \X Range(points) :
        /\ side[1] # side[2]
        /\ \A r \in Range(points) :
              \/ Turn(side[1], side[2], r) > 0
              \/ Turn(side[1], side[2], r) = 0 /\ Within(side[1], side[2], r)}

RECURSIVE SumCross(_)
SumCross(sides) ==
    IF sides = {} THEN 0
    ELSE LET side == CHOOSE s \in sides : TRUE
         IN  Cross(side[1], side[2]) + SumCross(sides \ {side})

(* line 127: cv2.contourArea of the hull, doubled; 0 for a single point and
   for points on one line *)
TwiceHullArea(points) == Abs(SumCross(convexHull(points)))

(* lines 141-146: the centre of mass <<cx * d, cy * d, d>> with d > 0, from
   the moments m10 / m00 and m01 / m00 of the closed contour, or the middle
   of the bounding box where m00 is 0 *)
CenterOfMass(points) ==
    LET n == Len(points)
        m00 == Shoelace(points)
        m10 == SumSeq([i \in 1..n |->
                   (points[i][1] + Following(points, i)[1])
                       * Cross(points[i], Following(points, i))])
        m01 == SumSeq([i \in 1..n |->
                   (points[i][2] + Following(points, i)[2])
                       * Cross(points[i], Following(points, i))])
        box == boundingRect(points)
        common == GCD(GCD(Abs(m10), Abs(m01)), 3 * Abs(m00))
    IN  IF m00 > 0 THEN <<m10 \div common, m01 \div common, (3 * m00) \div common>>
        ELSE IF m00 < 0
        THEN <<(0 - m10) \div common, (0 - m01) \div common, (0 - 3 * m00) \div common>>
        ELSE <<2 * box.x + box.w, 2 * box.y + box.h, 2>>

(* line 173: points - [cx, cy], kept multiplied by the denominator of the
   centre, which changes neither the angles nor std / mean of the distances.
   The offsets do not depend on where the contour lies, and are computed with
   the corner of its bounding box as the origin, which keeps the moments
   small. *)
PointOffsets(points) ==
    LET box == boundingRect(points)
        moved == [i \in 1..Len(points) |-> <<points[i][1] - box.x, points[i][2] - box.y>>]
        center == CenterOfMass(moved)
    IN  [i \in 1..Len(points) |-> <<center[3] * moved[i][1] - center[1],
                                    center[3] * moved[i][2] - center[2]>>]

(* lines 174-175: np.degrees(np.arctan2(dy, dx)) % 360 of one point, the
   offset brought below 30000 first.  cx and cy are rounded floats: a point
   level with the centre and to its right lies at 0 or just below 360, a
   point on the centre in any direction.  An angle within a thousandth of a
   degree below 360 is 360. *)
PointAngles(offset) ==
    LET coarser == Max2(Abs(offset[1]), Abs(offset[2])) \div 30000 + 1
        angle == Degrees(TruncDiv(offset[2], coarser), TruncDiv(offset[1], coarser))
    IN  IF offset = <<0, 0>> THEN {0, 45000, 90000, 135000, 180000, 225000, 270000,
                                   315000, 360000}
        ELSE IF offset[2] = 0 /\ offset[1] > 0 THEN {0, 360000}
        ELSE IF offset[2] < 0 /\ angle = 0 THEN {360000}
        ELSE {angle}

RECURSIVE ContourAngles(_)
ContourAngles(offsets) ==
    IF offsets = <<>> THEN {<<>>}
    ELSE {<<angle>> \o rest : angle \in PointAngles(Head(offsets)),
                              rest \in ContourAngles(Tail(offsets))}

(* lines 178-180: the largest gap between neighbouring sorted angles, 0 for
   a single point; the gap across 360 is not among them *)
MaxGap(angles) ==
    LET n == Len(angles)
        sorted == SortByKey(angles, angles)
    IN  IF n < 2 THEN 0
        ELSE MaxSeq([i \in 1..(n - 1) |-> sorted[i + 1] - sorted[i]])

(* line 184 *)
GapScore(max_gap) == max_gap \div 36

(* the integer computation of arc_score is within this many ten-thousandths
   of the float *)
ScoreTolerance == 3

(* line 173: the distances np.sqrt(dx^2 + dy^2) of the points from the
   centre, in the unit that brings the largest offset next to 30000 *)
PointDistances(offsets) ==
    LET n == Len(offsets)
        largest == MaxSeq([i \in 1..n |-> Max2(Abs(offsets[i][1]), Abs(offsets[i][2]))])
        finer == IF largest > 0 THEN Max2(30000 \div largest, 1) ELSE 1
        coarser == largest \div 30000 + 1
        dx == [i \in 1..n |-> TruncDiv(finer * offsets[i][1], coarser)]
        dy == [i \in 1..n |-> TruncDiv(finer * offsets[i][2], coarser)]
    IN  [i \in 1..n |-> ISqrt(dx[i] * dx[i] + dy[i] * dy[i])]

(* line 183: 1 - std / mean of the distances from the centre of mass to the
   contour points.  With the deviations e = n d - sum d of the distances,
   std / mean = sqrt(sum e^2 / n) / sum d; the deviations are brought next to
   46340 and the square root is taken in the finest unit that stays below
   2^31.  The division is Python's division of two floats, which raises
   ZeroDivisionError on a zero divisor. *)
DistanceScore(distances) ==
    LET n == Len(distances)
        total == SumSeq(distances)
        deviations == [i \in 1..n |-> n * distances[i] - total]
        largest == MaxSeq([i \in 1..n |-> Abs(deviations[i])])
        finer == IF largest > 0 THEN Max2(46340 \div largest, 1) ELSE 1
        coarser == largest \div 46340 + 1
        scaled == [i \in 1..n |-> TruncDiv(finer * deviations[i], coarser)]
        spread == SumSeq([i \in 1..n |-> (scaled[i] * scaled[i]) \div n])
        unit == 46340 \div (ISqrt(spread) + 1)
        root == ISqrt(unit * unit * spread)
        mean == total \div coarser
    IN  IF total = 0 THEN Raise("float division by zero")
        ELSE IF mean = 0 \/ unit * finer > 2147483647 \div mean THEN Return(10000)
        ELSE Return(10000 - (10000 * root) \div (unit * finer * mean))

(* lines 168-187: the values arc_score can have; it is computed only for an
   area above 1000 *)
ArcScore(points) ==
    LET offsets == PointOffsets(points)
        distance_score == DistanceScore(PointDistances(offsets))
        gap_scores == {GapScore(MaxGap(angles)) : angles \in ContourAngles(offsets)}
        weighted == {(7 * distance_score.value + 3 * gap_score) \div 10 :
                        gap_score \in gap_scores}
        lowest == CHOOSE v \in weighted : \A w \in weighted : v <= w
        highest == CHOOSE v \in weighted : \A w \in weighted : v >= w
    IN  IF TwiceContourArea(points) > 2000
        THEN IF distance_score.raised THEN {distance_score}
             ELSE IF <<0, 0>> \in Range(offsets)
             THEN {Return(v) : v \in (lowest - ScoreTolerance)..(highest + ScoreTolerance)}
             ELSE {Return(v + t) : v \in weighted,
                                   t \in (0 - ScoreTolerance)..ScoreTolerance}
        ELSE {Return(0)}

(* lines 121-187 and 193-205: the ratios of the feature vector *)
ShapeRatios(m) ==
    LET area == TwiceContourArea(m.points)
        box == boundingRect(m.points)
    IN  {IF arc_score.raised THEN arc_score
         ELSE Return([solidity |-> Solidity(area, TwiceHullArea(m.points)),
                      aspect_ratio |-> AspectRatio(box.w, box.h),
                      extent |-> Extent(area, 2 * box.w, box.h),
                      circularity |-> Circularity(area, 2 * m.circle_area),
                      arc_score |-> arc_score.value]) :
            arc_score \in ArcScore(m.points)}

(* contours with the area of their enclosing circle: one pixel, a stroke one
   pixel wide, a small triangle, a square, a rectangle, a large triangle, a
   kite with a corner level with its centre of mass, an L and a dart whose
   inner corner is its centre of mass *)
Shapes ==
    { [points |-> <<<<20, 20>>>>, circle_area |-> 0],
      [points |-> <<<<0, 0>>, <<40, 0>>>>, circle_area |-> 1257],
      [points |-> <<<<0, 0>>, <<40, 0>>, <<0, 38>>>>, circle_area |-> 2391],
      [points |-> <<<<0, 0>>, <<40, 0>>, <<40, 40>>, <<0, 40>>>>, circle_area |-> 2513],
      [points |-> <<<<0, 0>>, <<60, 0>>, <<60, 20>>, <<0, 20>>>>, circle_area |-> 3142],
      [points |-> <<<<0, 0>>, <<60, 0>>, <<0, 60>>>>, circle_area |-> 5655],
      [points |-> <<<<20, 0>>, <<60, 20>>, <<20, 40>>, <<0, 20>>>>, circle_area |-> 2827],
      [points |-> <<<<0, 0>>, <<40, 0>>, <<40, 20>>, <<20, 20>>, <<20, 40>>, <<0, 40>>>>,
       circle_area |-> 2513],
      [points |-> <<<<0, 0>>, <<40, 40>>, <<80, 0>>, <<40, 80>>>>, circle_area |-> 7854] }

(* the centres of the shapes of a chart: three coincident ones, three on a
   circle, three on a line, and two *)
Centres ==
    { <<<<500, 500>>, <<500, 500>>, <<500, 500>>>>,
      <<<<0, 0>>, <<1000, 0>>, <<500, 866>>>>,
      <<<<0, 0>>, <<500, 0>>, <<1500, 0>>>>,
      <<<<0, 0>>, <<1000, 0>>>> }

Measurements ==
    { [points |-> shape.points, circle_area |-> shape.circle_area, centers |-> centers] :
         shape \in Shapes, centers \in Centres }

InitRatios ==
    /\ measurement \in Measurements
    /\ ratios = [features |-> None, radial_arrangement |-> None]
    /\ done = {}
    /\ IdleDetect
    /\ IdleProbe
    /\ IdleExtract
    /\ IdleAnalyze
    /\ IdleSession
    /\ IdleFormat
    /\ IdleLoop
    /\ IdleApp

(* _extract_shape_features on the contour *)
ExtractRatios ==
    /\ "features" \notin done
    /\ \E shape_features \in ShapeRatios(measurement) :
          ratios' = [ratios EXCEPT !.features = shape_features]
    /\ done' = done \cup {"features"}
    /\ UNCHANGED <<detector, image, result, detected, detectors, features, calls,
                   line_out, ex_type, ex_shapes, ex_features, ex_result, twin,
                   analyzerVars, sessionVars, formatVars, loopVars, appVars,
                   measurement>>

(* the radial arrangement of analyze_chart_structure on the centres *)
ArrangeRadially ==
    /\ "radial_arrangement" \notin done
    /\ \E radial_arrangement \in RadialArrangement(measurement.centers) :
          ratios' = [ratios EXCEPT !.radial_arrangement = radial_arrangement]
    /\ done' = done \cup {"radial_arrangement"}
    /\ UNCHANGED <<detector, image, result, detected, detectors, features, calls,
                   line_out, ex_type, ex_shapes, ex_features, ex_result, twin,
                   analyzerVars, sessionVars, formatVars, loopVars, appVars,
                   measurement>>

NextRatios ==
    \/ ExtractRatios
    \/ ArrangeRadially

SpecRatios == InitRatios /\ [][NextRatios]_vars

(***************************************************************************)
(* The web application (src/app.py): POST /process, handled by process_pdf.*)
(* The server handles requests concurrently; a request advances one file   *)
(* system call at a time.  disk maps the names of the files of the working *)
(* directory to their content and to the request that wrote them.  The     *)
(* content of a file is "" once it is created, "partial" when a copy was   *)
(* cut short, the content of the upload when the copy is complete, and the *)
(* output text for a result file.                                          *)
(***************************************************************************)
(* the values uuid.uuid4() can return *)
Uuids == 1..(2 * MaxRequests)

(* uuid.uuid4(), lines 51 and 66: a value not returned before *)
uuid4(issued) == Uuids \ issued

(* line 51: f"temp_{uuid.uuid4()}.pdf" *)
TempName(u) == [prefix |-> "temp_", uuid |-> u, ext |-> ".pdf"]

(* line 66: f"result_{uuid.uuid4()}.txt" *)
ResultName(u) == [prefix |-> "result_", uuid |-> u, ext |-> ".txt"]

(* the multipart bodies posted: no file part, a file part with an empty
   filename, a PDF of two pages that process_document reads, and one it
   fails on *)
Uploads ==
    { [has_file |-> FALSE, filename |-> "", content |-> ""],
      [has_file |-> TRUE, filename |-> "", content |-> ""],
      [has_file |-> TRUE, filename |-> "a.pdf", content |-> "pdf"],
      [has_file |-> TRUE, filename |-> "b.pdf", content |-> "corrupt"] }

(* len(pdf.pages) of line 86 *)
PagesOf(content) == IF content = "pdf" THEN 2 ELSE 0

(* the locals of one call of process_pdf; reads and removed hold the owners
   of the files the request has read by the name of its temporary PDF and
   has removed *)
NewRequest(upload) ==
    [upload |-> upload, pc |-> "received", pdf_filename |-> None, saved |-> FALSE,
     pages |-> 0, page |-> 0, reads |-> {}, removed |-> {}, raised |-> FALSE,
     output_text |-> "", result_filename |-> None, status |-> 0, body |-> ""]

(* open(name, 'w') and write, or FileStorage.save *)
Put(files, name, file) ==
    [n \in DOMAIN files \cup {name} |-> IF n = name THEN file ELSE files[n]]

(* os.remove *)
Drop(files, name) == [n \in DOMAIN files \ {name} |-> files[n]]

(* an exception that leaves process_pdf: the server answers 500 *)
Unhandled(request) ==
    [request EXCEPT !.pc = "done", !.status = 500, !.body = "Internal Server Error"]

(* lines 56-60: an exception inside the try; the except branch makes the
   body and the finally clause runs before the return *)
Caught(request, text) ==
    [request EXCEPT !.pc = "exists", !.raised = TRUE,
                    !.body = "Error processing the PDF: " \o text]

NotApp ==
    <<detector, image, result, detected, detectors, features, calls,
      line_out, ex_type, ex_shapes, ex_features, ex_result, done, twin,
      analyzerVars, sessionVars, formatVars, loopVars, ratioVars>>

InitApp ==
    /\ requests = <<>>
    /\ disk = <<>>
    /\ uuids = {}
    /\ done = {}
    /\ IdleDetect
    /\ IdleProbe
    /\ IdleExtract
    /\ IdleAnalyze
    /\ IdleSession
    /\ IdleFormat
    /\ IdleLoop
    /\ IdleRatios

(* a POST /process arrives *)
Receive(upload) ==
    /\ Len(requests) < MaxRequests
    /\ requests' = Append(requests, NewRequest(upload))
    /\ UNCHANGED <<disk, uuids>>
    /\ UNCHANGED NotApp

(* lines 40-51: the two checks, then the name of the temporary PDF *)
Validate(i) ==
    /\ requests[i].pc = "received"
    /\ IF ~requests[i].upload.has_file
       THEN /\ requests' = [requests EXCEPT ![i].pc = "done", ![i].status = 400,
                                            ![i].body = "No file uploaded."]
            /\ UNCHANGED uuids
       ELSE IF requests[i].upload.filename = ""
       THEN /\ requests' = [requests EXCEPT ![i].pc = "done", ![i].status = 400,
                                            ![i].body = "No file selected."]
            /\ UNCHANGED uuids
       ELSE \E u \in uuid4(uuids) :
               /\ requests' = [requests EXCEPT ![i].pc = "save",
                                               ![i].pdf_filename = TempName(u)]
               /\ uuids' = uuids \cup {u}
    /\ UNCHANGED disk
    /\ UNCHANGED NotApp

(* line 52, pdf_file.save(pdf_filename), first half: FileStorage.save opens
   the destination for writing, which creates the file; the open can fail
   (no permission, no space), and line 52 is outside the try *)
Save(i) ==
    /\ requests[i].pc = "save"
    /\ \/ /\ disk' = Put(disk, requests[i].pdf_filename, [owner |-> i, content |-> ""])
          /\ requests' = [requests EXCEPT ![i].pc = "copy"]
       \/ /\ requests' = [requests EXCEPT ![i] = Unhandled(@)]
          /\ UNCHANGED disk
    /\ UNCHANGED uuids
    /\ UNCHANGED NotApp

(* line 52, second half: FileStorage.save copies the upload into the file
   and closes it; a copy that fails (the disk fills) leaves what it wrote *)
Copy(i) ==
    /\ requests[i].pc = "copy"
    /\ \/ /\ disk' = Put(disk, requests[i].pdf_filename,
                         [owner |-> i, content |-> requests[i].upload.content])
          /\ requests' = [requests EXCEPT ![i].pc = "open", ![i].saved = TRUE]
       \/ /\ disk' = Put(disk, requests[i].pdf_filename,
                         [owner |-> i, content |-> "partial"])
          /\ requests' = [requests EXCEPT ![i] = Unhandled(@)]
    /\ UNCHANGED uuids
    /\ UNCHANGED NotApp

(* process_document, lines 85-86: pdfplumber.open(pdf_path) opens the file
   of that name; it raises when the file is gone or is not a PDF it can read *)
OpenPdf(i) ==
    /\ requests[i].pc = "open"
    /\ IF requests[i].pdf_filename \notin DOMAIN disk
       THEN requests' = [requests EXCEPT ![i] = Caught(@, "No such file")]
       ELSE LET file == disk[requests[i].pdf_filename]
                opened == [requests[i] EXCEPT !.reads = @ \cup {file.owner}]
            IN  IF file.content # "pdf"
                THEN requests' = [requests EXCEPT ![i] = Caught(opened, "No /Root object")]
                ELSE requests' = [requests EXCEPT ![i] =
                                     [opened EXCEPT !.pc = "page", !.page = 1,
                                                    !.pages = PagesOf(file.content)]]
    /\ UNCHANGED <<disk, uuids>>
    /\ UNCHANGED NotApp

(* process_document, lines 87-108: one turn of the loop over the pages;
   convert_from_path(pdf_path, first_page=i, last_page=i) of line 94 opens
   the file of that name again, and raises when it is gone; after the last
   page lines 110-112 join the text *)
ConvertPage(i) ==
    /\ requests[i].pc = "page"
    /\ IF requests[i].pdf_filename \notin DOMAIN disk
       THEN requests' = [requests EXCEPT ![i] = Caught(@, "Unable to get page count")]
       ELSE LET file == disk[requests[i].pdf_filename]
                converted == [requests[i] EXCEPT !.reads = @ \cup {file.owner}]
            IN  IF requests[i].page < requests[i].pages
                THEN requests' = [requests EXCEPT ![i] =
                                     [converted EXCEPT !.page = @ + 1]]
                ELSE requests' = [requests EXCEPT ![i] =
                                     [converted EXCEPT !.pc = "exists",
                                                       !.output_text = "text of " \o file.content]]
    /\ UNCHANGED <<disk, uuids>>
    /\ UNCHANGED NotApp

(* line 63 of the finally clause: os.path.exists(pdf_filename) *)
Exists(i) ==
    /\ requests[i].pc = "exists"
    /\ requests' = [requests EXCEPT ![i].pc =
                       IF requests[i].pdf_filename \in DOMAIN disk THEN "remove" ELSE "respond"]
    /\ UNCHANGED <<disk, uuids>>
    /\ UNCHANGED NotApp

(* line 64 of the finally clause: os.remove(pdf_filename), which raises when
   the file has gone since the test; the exception leaves the handler *)
Remove(i) ==
    /\ requests[i].pc = "remove"
    /\ IF requests[i].pdf_filename \in DOMAIN disk
       THEN /\ requests' = [requests EXCEPT ![i].pc = "respond",
                               ![i].removed = @ \cup {disk[requests[i].pdf_filename].owner}]
            /\ disk' = Drop(disk, requests[i].pdf_filename)
       ELSE /\ requests' = [requests EXCEPT ![i] = Unhandled(@)]
            /\ UNCHANGED disk
    /\ UNCHANGED uuids
    /\ UNCHANGED NotApp

(* after the finally clause: the return of line 60 when process_document
   raised, and line 66, the name of the result file, when it returned *)
Respond(i) ==
    /\ requests[i].pc = "respond"
    /\ IF requests[i].raised
       THEN /\ requests' = [requests EXCEPT ![i].pc = "done", ![i].status = 500]
            /\ UNCHANGED uuids
       ELSE \E u \in uuid4(uuids) :
               /\ requests' = [requests EXCEPT ![i].pc = "create",
                                               ![i].result_filename = ResultName(u)]
               /\ uuids' = uuids \cup {u}
    /\ UNCHANGED disk
    /\ UNCHANGED NotApp

(* line 67: open(result_filename, 'w', encoding='utf-8') creates the file *)
CreateResult(i) ==
    /\ requests[i].pc = "create"
    /\ disk' = Put(disk, requests[i].result_filename, [owner |-> i, content |-> ""])
    /\ requests' = [requests EXCEPT ![i].pc = "write"]
    /\ UNCHANGED uuids
    /\ UNCHANGED NotApp

(* line 68: f.write(output_text), and the close that ends the with block *)
WriteResult(i) ==
    /\ requests[i].pc = "write"
    /\ disk' = Put(disk, requests[i].result_filename,
                   [owner |-> i, content |-> requests[i].output_text])
    /\ requests' = [requests EXCEPT ![i].pc = "send"]
    /\ UNCHANGED uuids
    /\ UNCHANGED NotApp

(* line 73: send_file(result_filename, ...) opens the file of that name and
   answers with its content; it raises when the file is gone *)
SendFile(i) ==
    /\ requests[i].pc = "send"
    /\ IF requests[i].result_filename \in DOMAIN disk
       THEN requests' = [requests EXCEPT ![i].pc = "done", ![i].status = 200,
                                         ![i].body = disk[requests[i].result_filename].content]
       ELSE requests' = [requests EXCEPT ![i] = Unhandled(@)]
    /\ UNCHANGED <<disk, uuids>>
    /\ UNCHANGED NotApp

NextApp ==
    \/ \E upload \in Uploads : Receive(upload)
    \/ \E i \in 1..Len(requests) : Validate(i)
    \/ \E i \in 1..Len(requests) : Save(i)
    \/ \E i \in 1..Len(requests) : Copy(i)
    \/ \E i \in 1..Len(requests) : OpenPdf(i)
    \/ \E i \in 1..Len(requests) : ConvertPage(i)
    \/ \E i \in 1..Len(requests) : Exists(i)
    \/ \E i \in 1..Len(requests) : Remove(i)
    \/ \E i \in 1..Len(requests) : Respond(i)
    \/ \E i \in 1..Len(requests) : CreateResult(i)
    \/ \E i \in 1..Len(requests) : WriteResult(i)
    \/ \E i \in 1..Len(requests) : SendFile(i)

SpecApp == InitApp /\ [][NextApp]_vars

(***************************************************************************)
(* Properties of the detector.                                             *)
(***************************************************************************)
BoxIntersection(a, b) ==
    LET iw == Min2(a[1] + a[3], b[1] + b[3]) - Max2(a[1], b[1])
        ih == Min2(a[2] + a[4], b[2] + b[4]) - Max2(a[2], b[2])
    IN  IF iw > 0 /\ ih > 0 THEN iw * ih ELSE 0

(* intersection-over-union of two boxes is at most 1/2 *)
IoUAtMostHalf(a, b) ==
    2 * BoxIntersection(a, b) <= a[3] * a[4] + b[3] * b[4] - BoxIntersection(a, b)

NoDuplicates(shapes) ==
    \A i, j \in 1..Len(shapes) :
        i # j => IoUAtMostHalf(shapes[i].bbox, shapes[j].bbox)

DetectReturned == "detect" \in done
ShapesReturned == "detect_shapes" \in done /\ ~detected.raised

(* C1: every pair of distinct shapes emitted by detect and by detect_shapes
   has bounding-box intersection-over-union at most 0.5. *)
C1_NoDuplicateSurvives ==
    /\ DetectReturned => NoDuplicates(result.value.shapes)
    /\ ShapesReturned => NoDuplicates(detected.value.shapes)

(* two shapes emitted, and a classifiable candidate dropped as the duplicate of one *)
C1_Witness ==
    /\ DetectReturned
    /\ Len(result.value.shapes) = 2
    /\ \E c \in Range(image.found) :
          /\ c \notin Range(result.value.shapes)
          /\ c.area >= detector.min_shape_area
          /\ _classify_shape(detector, _extract_shape_features(c)) # "unknown"
          /\ \E s \in Range(result.value.shapes) : ~IoUAtMostHalf(c.bbox, s.bbox)

NoSmallShape(shapes) ==
    \A i \in 1..Len(shapes) : shapes[i].area >= detector.min_shape_area

(* C2: no shape emitted by the detector has contour area below the configured
   min_shape_area (default 50), and neither has its feature vector. *)
C2_NoShapeBelowMinArea ==
    /\ DetectReturned =>
          /\ NoSmallShape(result.value.shapes)
          /\ NoSmallShape(result.value.features)
    /\ ShapesReturned => NoSmallShape(detected.value.shapes)

(* a configured minimum above the default, a candidate between the two that the
   classifier accepts, dropped, while another candidate is emitted *)
C2_Witness ==
    /\ DetectReturned
    /\ detector.min_shape_area > DefaultMinShapeArea
    /\ Len(result.value.shapes) > 0
    /\ \E c \in Range(image.found) :
          /\ c.area >= DefaultMinShapeArea
          /\ c.area < detector.min_shape_area
          /\ _classify_shape(detector, _extract_shape_features(c)) = "point"
          /\ c \notin Range(result.value.shapes)

Malformed(img) == img.kind # "ndarray" \/ img.cv_error # "none"

(* C3: detect never raises; on an input a pipeline stage fails on it returns
   success = false, shape_count = 0, empty shape lists, confidence 0, type None
   and an error entry holding the error text. *)
C3_DetectNeverRaises ==
    DetectReturned =>
        /\ ~result.raised
        /\ Malformed(image) =>
              /\ result.value.success = FALSE
              /\ result.value.shape_count = 0
              /\ result.value.shapes = <<>>
              /\ result.value.shape_types = <<>>
              /\ result.value.features = <<>>
              /\ result.value.confidence = 0
              /\ "error" \in DOMAIN result.value
              /\ result.value.error # ""
              /\ result.value.type = None

(* detect was called on a str and returned the failure result *)
C3_Witness ==
    /\ DetectReturned
    /\ image.kind = "str"
    /\ ~result.raised
    /\ "error" \in DOMAIN result.value

(* C4: the confidence of every result of detect lies in [0,1]; with no emitted
   shape it is exactly 0 and success is false. *)
C4_ConfidenceRange ==
    DetectReturned /\ ~result.raised =>
        /\ 0 <= result.value.confidence
        /\ result.value.confidence <= 10000
        /\ result.value.shapes = <<>> =>
              /\ result.value.confidence = 0
              /\ result.value.success = FALSE

(* an image with candidates of which none is emitted, under a detector that
   emits several shapes for other images *)
C4_Witness ==
    /\ DetectReturned
    /\ ~Malformed(image)
    /\ Len(image.found) >= 2
    /\ result.value.shapes = <<>>
    /\ result.value.confidence = 0

(* the sum of solidity * extent over a list of feature vectors, as one
   fraction *)
RECURSIVE SumOfQualities(_)
SumOfQualities(fs) ==
    IF fs = <<>> THEN Zero
    ELSE LET rest == SumOfQualities(Tail(fs))
             quality == Ratio(Head(fs).solidity[1] * Head(fs).extent[1],
                              Head(fs).solidity[2] * Head(fs).extent[2])
         IN  Ratio(quality[1] * rest[2] + rest[1] * quality[2], quality[2] * rest[2])

(* the mean of solidity * extent over a list of feature vectors, in
   ten-thousandths rounded down *)
MeanQuality(fs) ==
    LET sum == SumOfQualities(fs)
        count == sum[2] * Len(fs)
    IN  Scaled(sum[1] \div count, sum[1] % count, count, 4)[1]

(* C5: success holds exactly when shape_count > 0 and confidence >=
   min_confidence, the confidence being the mean over the emitted shapes of
   solidity * extent; a successful result has confidence >= min_confidence. *)
C5_SuccessIffConfident ==
    DetectReturned /\ ~result.raised =>
        /\ result.value.success <=>
              (result.value.shape_count > 0
               /\ result.value.confidence >= detector.min_confidence)
        /\ result.value.shape_count = Len(result.value.features)
        /\ result.value.shape_count > 0 =>
              result.value.confidence = MeanQuality(result.value.features)
        /\ result.value.success => result.value.confidence >= detector.min_confidence

(* shapes were emitted but their mean quality is below the threshold *)
C5_Witness ==
    /\ DetectReturned
    /\ ~result.raised
    /\ result.value.shape_count >= 2
    /\ result.value.confidence < detector.min_confidence
    /\ result.value.confidence > 0
    /\ result.value.success = FALSE

(***************************************************************************)
(* Properties of the classifier.                                           *)
(***************************************************************************)

(* C6: every call of _classify_shape on the same feature vector returns the
   same category, whichever detector instance, with whatever configuration,
   is asked and whatever calls came before. *)
C6_ClassifyDeterministic ==
    \A i, j \in 1..Len(calls) : calls[i].category = calls[j].category

(* both instances were asked about a vector that is not "unknown" and whose
   area lies between their two min_shape_area values *)
C6_Witness ==
    /\ Len(calls) >= 2
    /\ calls[1].det # calls[2].det
    /\ detectors[1].min_shape_area # detectors[2].min_shape_area
    /\ features.area >= detectors[1].min_shape_area
    /\ features.area < detectors[2].min_shape_area
    /\ calls[1].category # "unknown"

LineCalled == "_extract_line_data" \in done

(* C8: _extract_line_data emits a point for a shape exactly when
   _classify_shape returns "point" for its feature vector. *)
C8_LinePredicateMatchesClassifier ==
    (LineCalled /\ Len(calls) >= 1) =>
        (Len(line_out.points) = 1 <=> calls[1].category = "point")

(* a point that only the circularity clause admits, seen by both *)
C8_Witness ==
    /\ LineCalled
    /\ Len(calls) >= 1
    /\ calls[1].category = "point"
    /\ Len(line_out.points) = 1
    /\ Gt(features.circularity, 45)
    /\ Le(features.solidity, 95)
    /\ features.vertices \notin 5..8

(***************************************************************************)
(* Properties of the extractor.                                            *)
(***************************************************************************)
Extracted(chart_type) ==
    "extract_data" \in done /\ ex_type = chart_type /\ ex_result.success

SumPercentages(segments) ==
    SumSeq([i \in 1..Len(segments) |-> segments[i].percentage])

SumAreas(segments) ==
    SumSeq([i \in 1..Len(segments) |-> segments[i].area])

(* within 100 +/- 1, in hundredths of a percent *)
AboutHundred(p) == 9900 <= p /\ p <= 10100

(* C7: whenever pie extraction emits at least one segment, the percentages
   of the emitted segments sum to 100 +/- 1.  The feature vectors are those
   _extract_shape_features computes: it leaves arc_score at 0 unless the
   area is above 1000, so every segment has an area and total_area > 0. *)
C7_PercentagesSumTo100 ==
    (Extracted("pie") /\ Len(ex_result.data.segments) >= 1) =>
        /\ SumAreas(ex_result.data.segments) > 0
        /\ AboutHundred(SumPercentages(ex_result.data.segments))

(* two segments of different areas, beside a shape that is no segment *)
C7_Witness ==
    /\ Extracted("pie")
    /\ Len(ex_result.data.segments) = 2
    /\ Len(ex_features) = 3
    /\ ex_result.data.segments[1].percentage # ex_result.data.segments[2].percentage
    /\ ex_result.data.segments[1].percentage > 0
    /\ ex_result.data.segments[2].percentage > 0

(* section 4.4 rule 1 of the specification: the point predicate *)
PointRule(f) ==
    /\ f.area < 1000
    /\ Gt(f.solidity, 90)
    /\ \/ Gt(f.circularity, 45)
       \/ (5 <= f.vertices /\ f.vertices <= 8 /\ Gt(f.extent, 60))
       \/ (f.area < 400 /\ Gt(f.extent, 60) /\ Gt(f.solidity, 95))
       \/ (Gt(f.solidity, 95) /\ Gt(f.extent, 70))
       \/ (Gt(f.circularity, 40) /\ Gt(f.extent, 65) /\ Gt(f.solidity, 95))
       \/ (f.area < 500 /\ f.vertices <= 6 /\ Gt(f.solidity, 95))

(* the point {x, y, size = area} of a shape: its centroid, truncated *)
ExpectedPoint(f) ==
    [x |-> f.center[1] \div 10, y |-> f.center[2] \div 10, size |-> f.area]

(* the positions of the shapes, paired with a feature vector, that satisfy the
   point predicate *)
PointPositions ==
    {k \in 1..Min2(Len(ex_shapes), Len(ex_features)) : PointRule(ex_features[k])}

(* C9: line extraction returns its points in ascending order of x, one point
   {x, y, size = area} for each shape that satisfies the point predicate and
   none for any other shape, whatever the input order. *)
C9_LinePointsAscending ==
    Extracted("line") =>
        LET points == ex_result.data.points
        IN  /\ \A i \in 1..(Len(points) - 1) : points[i].x <= points[i + 1].x
            /\ Len(points) = Cardinality(PointPositions)
            /\ \A q \in Range(points) \cup {ExpectedPoint(ex_features[k]) : k \in PointPositions} :
                   Cardinality({i \in 1..Len(points) : points[i] = q})
                   = Cardinality({k \in PointPositions : ExpectedPoint(ex_features[k]) = q})

(* three shapes given in descending order of x, one of them no point: two
   points come out, reordered *)
C9_Witness ==
    /\ Extracted("line")
    /\ Len(ex_features) = 3
    /\ Len(ex_result.data.points) = 2
    /\ ex_result.data.points[1].x < ex_result.data.points[2].x
    /\ \E i, j \in PointPositions :
          /\ i < j
          /\ ExpectedPoint(ex_features[i]) = ex_result.data.points[2]
          /\ ExpectedPoint(ex_features[j]) = ex_result.data.points[1]

(* the positions of the shapes bar extraction takes: those with 4 vertices *)
BarPositions ==
    {k \in 1..Min2(Len(ex_shapes), Len(ex_features)) : ex_features[k].vertices = 4}

ExpectedBar(f) ==
    [x |-> f.bounding_box[1], width |-> f.bounding_box[3],
     height |-> f.bounding_box[4], area |-> f.area]

(* the bars are those of the taken shapes, arranged so that keys, a number for
   each input position, ascends *)
BarsAscendBy(bars, keys) ==
    /\ Len(bars) = Cardinality(BarPositions)
    /\ \E order \in [1..Len(bars) -> BarPositions] :
          /\ \A a, b \in 1..Len(bars) : a # b => order[a] # order[b]
          /\ \A a \in 1..Len(bars) : bars[a] = ExpectedBar(ex_features[order[a]])
          /\ \A a \in 1..(Len(bars) - 1) : keys[order[a]] <= keys[order[a + 1]]

(* C10 as stated: the bars come out in ascending order of the x of the
   centroids of their shapes. *)
C10_BarsAscendByCentroid ==
    Extracted("bar") =>
        BarsAscendBy(ex_result.data.bars,
                     [k \in 1..Len(ex_features) |-> ex_features[k].center[1]])

(* C10 amended: the bars come out in ascending order of their x, the left
   edge of the bounding box of their shape, whatever the input order, the
   positions and the widths. *)
C10_BarsAscendByLeftEdge ==
    Extracted("bar") =>
        /\ BarsAscendBy(ex_result.data.bars,
                        [k \in 1..Len(ex_features) |-> ex_features[k].bounding_box[1]])
        /\ \A a \in 1..(Len(ex_result.data.bars) - 1) :
               ex_result.data.bars[a].x <= ex_result.data.bars[a + 1].x

(* two bars given right one first, returned left one first *)
C10_Witness ==
    /\ Extracted("bar")
    /\ Len(ex_result.data.bars) = 2
    /\ ex_result.data.bars[1].x < ex_result.data.bars[2].x
    /\ \E i, j \in BarPositions :
          /\ i < j
          /\ ExpectedBar(ex_features[i]) = ex_result.data.bars[2]
          /\ ExpectedBar(ex_features[j]) = ex_result.data.bars[1]

(***************************************************************************)
(* Properties of the structural analyzer.                                  *)
(***************************************************************************)
Analyzed == "analyze_chart_structure" \in done

InUnitRange(metric) == 0 <= metric /\ metric <= 10000

(* C13 as stated: each of vertical_alignment, horizontal_alignment,
   radial_arrangement and grid_pattern returned by analyze_chart_structure
   lies in [0,1], and grid_pattern is the minimum of the two alignments. *)
C13_MetricsInUnitRange ==
    Analyzed =>
        /\ InUnitRange(an_result.analysis.vertical_alignment)
        /\ InUnitRange(an_result.analysis.horizontal_alignment)
        /\ InUnitRange(an_result.analysis.radial_arrangement)
        /\ InUnitRange(an_result.analysis.grid_pattern)
        /\ an_result.analysis.grid_pattern =
              Min2(an_result.analysis.vertical_alignment,
                   an_result.analysis.horizontal_alignment)

(* the chart type of section 4.5 of the specification, from the categories
   and the metrics of the result *)
TypeByPriority(types, analysis) ==
    IF \E i \in 1..Len(types) : types[i] = "segment" THEN "pie"
    ELSE IF /\ \E i \in 1..Len(types) : types[i] = "circle"
            /\ analysis.radial_arrangement > 7000 THEN "pie"
    ELSE IF /\ \E i \in 1..Len(types) : types[i] = "rectangle"
            /\ analysis.vertical_alignment > 7000 THEN "bar"
    ELSE IF Cardinality({i \in 1..Len(types) : types[i] = "point"}) > 2 THEN "line"
    ELSE None

(* C20: for a non-empty list of shapes analyze_chart_structure returns the
   type given by the priority pie (a segment, or a circle with
   radial_arrangement > 0.7), bar (a rectangle with vertical_alignment > 0.7),
   line (more than two points), None; for an empty list the type is None and
   the four metrics are 0. *)
C20_TypeByPriority ==
    Analyzed =>
        /\ an_shapes # <<>> =>
              an_result.type = TypeByPriority(an_types, an_result.analysis)
        /\ an_shapes = <<>> =>
              /\ an_result.type = None
              /\ an_result.analysis.vertical_alignment = 0
              /\ an_result.analysis.horizontal_alignment = 0
              /\ an_result.analysis.radial_arrangement = 0
              /\ an_result.analysis.grid_pattern = 0

(* a circle whose arrangement is not radial enough beside rectangles stacked
   in one column: the pie rule is passed over and the bar rule decides *)
C20_Witness ==
    /\ Analyzed
    /\ "circle" \in Range(an_types)
    /\ "rectangle" \in Range(an_types)
    /\ an_result.analysis.radial_arrangement > 0
    /\ an_result.analysis.radial_arrangement <= 7000
    /\ an_result.analysis.vertical_alignment > 7000
    /\ an_result.type = "bar"

(***************************************************************************)
(* Further properties of the extractor.                                    *)
(***************************************************************************)
ImageHeight == image.shape[1]

(* C11 as stated: every bar emitted by bar extraction has height =
   image_height - bounding_box.y of its shape. *)
C11_HeightFromBottomEdge ==
    Extracted("bar") =>
        \A i \in 1..Len(ex_result.data.bars) :
            \E k \in BarPositions :
                /\ ex_result.data.bars[i].x = ex_features[k].bounding_box[1]
                /\ ex_result.data.bars[i].width = ex_features[k].bounding_box[3]
                /\ ex_result.data.bars[i].area = ex_features[k].area
                /\ ex_result.data.bars[i].height
                      = ImageHeight - ex_features[k].bounding_box[2]

(* C11 amended: every bar emitted by bar extraction has height = the height
   h of the bounding box of its shape, for every image height and every
   position of the bar; that is image_height - bounding_box.y exactly when
   the bar reaches the bottom edge of the image. *)
C11_HeightIsBoxHeight ==
    Extracted("bar") =>
        \A i \in 1..Len(ex_result.data.bars) :
            \E k \in BarPositions :
                /\ ex_result.data.bars[i].x = ex_features[k].bounding_box[1]
                /\ ex_result.data.bars[i].width = ex_features[k].bounding_box[3]
                /\ ex_result.data.bars[i].area = ex_features[k].area
                /\ ex_result.data.bars[i].height = ex_features[k].bounding_box[4]
                /\ (ex_result.data.bars[i].height
                       = ImageHeight - ex_features[k].bounding_box[2])
                   <=> (ex_features[k].bounding_box[2] + ex_features[k].bounding_box[4]
                           = ImageHeight)

(* two bars of different heights whose boxes start at the same y, one of
   them reaching the bottom edge of the image and one ending above it *)
C11_Witness ==
    /\ Extracted("bar")
    /\ Len(ex_result.data.bars) = 2
    /\ \E i, j \in BarPositions :
          /\ ex_features[i].bounding_box[2] = ex_features[j].bounding_box[2]
          /\ ex_features[i].bounding_box[2] + ex_features[i].bounding_box[4] = ImageHeight
          /\ ex_features[j].bounding_box[2] + ex_features[j].bounding_box[4] < ImageHeight
          /\ ex_features[i].bounding_box[3] # ex_features[i].bounding_box[4]
          /\ ex_result.data.bars[1].height # ex_result.data.bars[2].height

ExtractCalled == "extract_data" \in done

Unsupported == ex_type \notin {"bar", "line", "pie"}

(* C12 as stated: for every chart_type other than bar, line and pie,
   None included, and every shape and feature list, extract_data returns
   success = false with an error text that names the unsupported type. *)
C12_UnsupportedTypeNamed ==
    (ExtractCalled /\ Unsupported) =>
        /\ ex_result.success = FALSE
        /\ ex_result.error = "Unsupported chart type: " \o ex_type

(* C12 amended: for every chart_type other than bar, line and pie, None
   included, extract_data returns success = false, the type it was given and
   no data; the error text names the unsupported type when the shape list
   and the feature list are both non-empty, and is "No shapes detected" when
   either is empty. *)
C12_UnsupportedTypeNamedIfShapes ==
    (ExtractCalled /\ Unsupported) =>
        /\ ex_result.success = FALSE
        /\ ex_result.type = ex_type
        /\ ex_result.data = <<>>
        /\ (ex_shapes # <<>> /\ ex_features # <<>>) =>
              ex_result.error = "Unsupported chart type: " \o ex_type
        /\ (ex_shapes = <<>> \/ ex_features = <<>>) =>
              ex_result.error = "No shapes detected"

(* chart_type None with shapes that a bar extraction would have taken *)
C12_Witness ==
    /\ ExtractCalled
    /\ ex_type = None
    /\ Len(ex_shapes) >= 2
    /\ BarPositions # {}
    /\ ex_result.success = FALSE
    /\ ex_result.error = "Unsupported chart type: None"

(***************************************************************************)
(* Further properties of the detector.                                     *)
(***************************************************************************)

(* the three lists are parallel: equal lengths, and the i-th category and
   feature vector are those of the i-th contour *)
Parallel(self, shapes, types, feats) ==
    /\ Len(shapes) = Len(types)
    /\ Len(shapes) = Len(feats)
    /\ \A i \in 1..Len(shapes) :
          /\ feats[i] = _extract_shape_features(shapes[i])
          /\ feats[i].bounding_box = shapes[i].bbox
          /\ types[i] = _classify_shape(self, feats[i])

LeftToRight(shapes) ==
    \A i \in 1..(Len(shapes) - 1) : shapes[i].bbox[1] <= shapes[i + 1].bbox[1]

(* C14: the detector returns lists of contours, categories and feature
   vectors of equal length whose i-th entries describe the same contour,
   ordered by non-decreasing left-most x of the bounding box; detect_shapes
   with include_features = False returns the same contours and categories
   without the features. *)
C14_ParallelLists ==
    /\ DetectReturned =>
          /\ result.value.shape_count = Len(result.value.shapes)
          /\ Parallel(detector, result.value.shapes, result.value.shape_types,
                      result.value.features)
          /\ LeftToRight(result.value.shapes)
    /\ ShapesReturned =>
          /\ Len(detected.value.shapes) = Len(detected.value.shape_types)
          /\ LeftToRight(detected.value.shapes)
          /\ \A i \in 1..Len(detected.value.shapes) :
                detected.value.shape_types[i]
                   = _classify_shape(detector, _extract_shape_features(detected.value.shapes[i]))
          /\ "include_features" \in done =>
                Parallel(detector, detected.value.shapes, detected.value.shape_types,
                         detected.value.shape_features)
          /\ "include_features" \notin done =>
                DOMAIN detected.value = {"shapes", "shape_types"}
    /\ (DetectReturned /\ ShapesReturned) =>
          /\ detected.value.shapes = result.value.shapes
          /\ detected.value.shape_types = result.value.shape_types

(* three candidates found right to left, of different categories, all
   emitted left to right, by detect and by detect_shapes without features *)
C14_Witness ==
    /\ DetectReturned
    /\ ShapesReturned
    /\ "include_features" \notin done
    /\ Len(image.found) = 3
    /\ image.found[1].bbox[1] > image.found[2].bbox[1]
    /\ image.found[2].bbox[1] > image.found[3].bbox[1]
    /\ Len(detected.value.shapes) = 3
    /\ Cardinality(Range(detected.value.shape_types)) = 3

(* C16: two detectors that differ only in shape_similarity_threshold return
   identical results of detect for every input. *)
C16_SimilarityThresholdUnused ==
    (DetectReturned /\ "twin" \in done) =>
        /\ twin.detector # detector
        /\ twin.detector.min_confidence = detector.min_confidence
        /\ twin.detector.min_shape_area = detector.min_shape_area
        /\ twin.result = result

(* two candidates whose boxes overlap by more than the lower and less than
   the higher of the two thresholds, and by more than 0.5: both detectors
   drop the second *)
C16_Witness ==
    /\ DetectReturned
    /\ "twin" \in done
    /\ ~Malformed(image)
    /\ Len(image.found) = 2
    /\ Len(result.value.shapes) = 1
    /\ Len(twin.result.value.shapes) = 1
    /\ \E lo, hi \in {detector.shape_similarity_threshold,
                      twin.detector.shape_similarity_threshold} :
          LET a == image.found[1].bbox
              b == image.found[2].bbox
              union == a[3] * a[4] + b[3] * b[4] - BoxIntersection(a, b)
          IN  /\ 100 * BoxIntersection(a, b) > lo * union
              /\ 100 * BoxIntersection(a, b) < hi * union
              /\ 2 * BoxIntersection(a, b) > union

(***************************************************************************)
(* Further properties of the classifier.                                   *)
(***************************************************************************)

(* section 4.4 of the specification: the decision list, first match wins *)
SpecifiedCategory(f) ==
    CASE PointRule(f) -> "point"
      [] ~PointRule(f) /\ f.vertices = 4 /\ Gt(f.extent, 85) /\ Gt(f.solidity, 90) -> "rectangle"
      [] /\ ~PointRule(f)
         /\ ~(f.vertices = 4 /\ Gt(f.extent, 85) /\ Gt(f.solidity, 90))
         /\ f.vertices = 3 /\ Gt(f.solidity, 90) -> "triangle"
      [] /\ ~PointRule(f)
         /\ ~(f.vertices = 4 /\ Gt(f.extent, 85) /\ Gt(f.solidity, 90))
         /\ ~(f.vertices = 3 /\ Gt(f.solidity, 90))
         /\ Gt(f.circularity, 80) /\ Gt(f.solidity, 90) /\ f.area >= 1000 -> "circle"
      [] /\ ~PointRule(f)
         /\ ~(f.vertices = 4 /\ Gt(f.extent, 85) /\ Gt(f.solidity, 90))
         /\ ~(f.vertices = 3 /\ Gt(f.solidity, 90))
         /\ ~(Gt(f.circularity, 80) /\ Gt(f.solidity, 90) /\ f.area >= 1000)
         /\ f.area > 1000 /\ f.arc_score > 30 /\ Gt(f.solidity, 80)
         /\ Ge(f.circularity, 20) /\ Le(f.circularity, 90) -> "segment"
      [] OTHER -> "unknown"

(* C19: _classify_shape returns the category the specified decision list
   gives, evaluated top to bottom with the first match winning (point,
   rectangle, triangle, circle, segment, else unknown), and no other value. *)
C19_ClassifyByDecisionList ==
    \A i \in 1..Len(calls) :
        /\ calls[i].category = SpecifiedCategory(features)
        /\ calls[i].category \in
              {"point", "rectangle", "triangle", "circle", "segment", "unknown"}

(* a vector that meets the rectangle rule and, only through the clause the
   code lists twice (area < 400, solidity > 0.95, extent > 0.65), the point
   rule: the first match, point, is returned *)
C19_Witness ==
    /\ Len(calls) >= 1
    /\ features.vertices = 4
    /\ Gt(features.extent, 85)
    /\ Gt(features.solidity, 95)
    /\ features.area < 400
    /\ Le(features.circularity, 40)
    /\ calls[1].category = "point"

(***************************************************************************)
(* Properties of invocations that share the instances.                     *)
(***************************************************************************)

(* what one invocation can return when it runs alone on a fresh detector *)
Sequential(self, op, img) ==
    IF op = "detect_shapes"
    THEN LET pre == preprocess_image(img)
         IN  IF pre.raised THEN {pre} ELSE {detect_shapes(self, pre.value, TRUE)}
    ELSE UNION {{Return([detection |-> r.value, data |-> data]) :
                    data \in extract_data(img, r.value.type, r.value.shapes,
                                          r.value.features)} :
                  r \in detect(self, img)}

Finished(i) == invocations[i].pc = "done"

(* C15: no step of an invocation changes the fields of the shared detector
   or extractor, and every invocation returns what it returns when run
   alone, whatever invocations ran before it or are interleaved with it. *)
C15_Stateless ==
    (Len(invocations) > 0) =>
        /\ detector = detectors[1]
        /\ extractor = ChartDataExtractor(EmptyConfig)
        /\ \A i \in DOMAIN invocations :
              Finished(i) =>
                  invocations[i].out
                     \in Sequential(detectors[1], invocations[i].op, invocations[i].image)
        /\ \A i, j \in DOMAIN invocations :
              (/\ Finished(i) /\ Finished(j)
               /\ invocations[i].op = invocations[j].op
               /\ invocations[i].image = invocations[j].image) =>
                  invocations[i].out = invocations[j].out

(* two pipeline invocations on the same image with shapes, the second one
   started, and past its detection, while the first had detected its shapes
   but not yet finished; both finished with the same non-empty result *)
C15_Witness ==
    /\ Len(invocations) >= 2
    /\ Finished(1)
    /\ Finished(2)
    /\ invocations[1].op = "pipeline"
    /\ invocations[2].op = "pipeline"
    /\ invocations[1].image = invocations[2].image
    /\ invocations[1].out.value.detection.shape_count >= 2
    /\ invocations[1].out = invocations[2].out

(***************************************************************************)
(* Properties of the report formatters.                                    *)
(***************************************************************************)
NumberOf(types, t) == Cardinality({i \in 1..Len(types) : types[i] = t})

(* the ordered rule of the claim, first match wins *)
KindByRule(types) ==
    CASE NumberOf(types, "segment") >= 1 -> "pie"
      [] NumberOf(types, "segment") = 0 /\ NumberOf(types, "rectangle") > 1 -> "bar"
      [] /\ NumberOf(types, "segment") = 0 /\ NumberOf(types, "rectangle") <= 1
         /\ NumberOf(types, "point") > 2 -> "line"
      [] /\ NumberOf(types, "segment") = 0 /\ NumberOf(types, "rectangle") <= 1
         /\ NumberOf(types, "point") <= 2 /\ NumberOf(types, "circle") = 1 -> "empty pie"
      [] OTHER -> "none"

(* the kind a value of _infer_chart_type names *)
KindOfJson(chart_type) ==
    CASE chart_type = "pie_chart" -> "pie"
      [] chart_type = "bar_chart" -> "bar"
      [] chart_type = "line_chart" -> "line"
      [] OTHER -> "none"

(* the kind a value of _infer_chart_description names *)
KindOfText(description) ==
    CASE description[1] = "Pie Chart with " -> "pie"
      [] description[1] = "Bar Chart with " -> "bar"
      [] description[1] = "Line Chart with " -> "line"
      [] description[1] = "Empty or unprocessed Pie Chart" -> "pie"
      [] OTHER -> "none"

Plain(kind) == IF kind = "empty pie" THEN "pie" ELSE kind

(* C17: both formatters infer the chart kind by the same ordered rule (a
   segment: pie; else more than one rectangle: bar; else more than two
   points: line; else exactly one circle: (empty) pie; else none), and for
   every list of shape types they name the same kind. *)
C17_FormattersInferSameKind ==
    /\ "_infer_chart_type" \in done =>
          KindOfJson(json_kind) = Plain(KindByRule(shape_types))
    /\ "_infer_chart_description" \in done =>
          /\ KindOfText(text_kind) = Plain(KindByRule(shape_types))
          /\ text_kind = <<"Empty or unprocessed Pie Chart">>
                <=> KindByRule(shape_types) = "empty pie"
          /\ Len(text_kind) = 3 =>
                text_kind[2] = NumberOf(shape_types,
                                        CASE KindByRule(shape_types) = "pie" -> "segment"
                                          [] KindByRule(shape_types) = "bar" -> "rectangle"
                                          [] OTHER -> "point")
    /\ ("_infer_chart_type" \in done /\ "_infer_chart_description" \in done) =>
          KindOfJson(json_kind) = KindOfText(text_kind)

(* one rectangle, one circle and two points: neither the bar rule nor the
   line rule matches, and both formatters fall through to the circle rule *)
C17_Witness ==
    /\ "_infer_chart_type" \in done
    /\ "_infer_chart_description" \in done
    /\ NumberOf(shape_types, "rectangle") = 1
    /\ NumberOf(shape_types, "point") = 2
    /\ NumberOf(shape_types, "circle") = 1
    /\ json_kind = "pie_chart"
    /\ text_kind = <<"Empty or unprocessed Pie Chart">>

FormatCalled == "format_result" \in done

(* json.loads of the rendered text: its keys, and the value under a key *)
JsonKeys(out) == {out.members[i][1] : i \in 1..Len(out.members)}

JsonGet(out, key) ==
    out.members[CHOOSE i \in 1..Len(out.members) : out.members[i][1] = key][2]

(* the keys format_result reads from a detection result *)
RequiredKeys(dr) ==
    {"success", "shape_count"}
    \cup (IF "error" \in DOMAIN dr THEN {} ELSE {"shapes", "shape_types", "features"})

IsFormattingError(text, keys) ==
    \E k \in keys : text = "JSON formatting error: " \o "'" \o k \o "'"

(* C18: JsonFormatter.format_result never raises: a detection result with an
   'error' entry is rendered with its success flag, its shape_count and that
   error text and with no 'shapes' or 'chart_type' entry, and a detection
   result that lacks a required key is rendered as JSON with success = false
   and a 'JSON formatting error' message. *)
C18_FormatNeverRaises ==
    FormatCalled =>
        /\ ~json_out.raised
        /\ ("error" \in DOMAIN detection_result
              /\ {"success", "shape_count"} \subseteq DOMAIN detection_result) =>
              /\ JsonGet(json_out.value, "success") = detection_result["success"]
              /\ JsonGet(json_out.value, "shape_count") = detection_result["shape_count"]
              /\ JsonGet(json_out.value, "error") = detection_result["error"]
              /\ "shapes" \notin JsonKeys(json_out.value)
              /\ "chart_type" \notin JsonKeys(json_out.value)
        /\ (RequiredKeys(detection_result) \ DOMAIN detection_result # {}) =>
              /\ JsonGet(json_out.value, "success") = FALSE
              /\ IsFormattingError(JsonGet(json_out.value, "error"),
                                   RequiredKeys(detection_result) \ DOMAIN detection_result)
              /\ JsonKeys(json_out.value) \subseteq {"success", "error", "metadata"}

(* a successful detection of one shape whose 'features' entry is missing is
   rendered as a formatting error *)
C18_Witness ==
    /\ FormatCalled
    /\ DOMAIN detection_result =
          {"success", "shape_count", "shape_types", "shapes", "confidence", "type", "details"}
    /\ detection_result["success"] = TRUE
    /\ detection_result["shape_count"] = 1
    /\ ~json_out.raised
    /\ JsonGet(json_out.value, "success") = FALSE
    /\ JsonGet(json_out.value, "error") = "JSON formatting error: 'features'"

(***************************************************************************)
(* Properties of the detector loop.                                        *)
(***************************************************************************)
EmittedCategories == {"point", "rectangle", "triangle", "circle", "segment"}

(* the candidates of the image that the classifier calls 'unknown' *)
UnknownCandidates(self, img) ==
    {c \in Range(img.found) : _classify_shape(self, _extract_shape_features(c)) = "unknown"}

(* C21: no shape emitted by the detector has category 'unknown': shape_types
   of every result of detect and of detect_shapes holds only point,
   rectangle, triangle, circle or segment, and no candidate the classifier
   calls 'unknown' is among the shapes. *)
C21_NoUnknownEmitted ==
    /\ DetectReturned =>
          /\ Range(result.value.shape_types) \subseteq EmittedCategories
          /\ Range(result.value.shapes) \cap UnknownCandidates(detector, image) = {}
    /\ ShapesReturned =>
          /\ Range(detected.value.shape_types) \subseteq EmittedCategories
          /\ Range(detected.value.shapes) \cap UnknownCandidates(detector, image) = {}

(* a candidate large enough and classified 'unknown' was found first and is
   left out, while the two candidates found after it are emitted *)
C21_Witness ==
    /\ DetectReturned
    /\ Len(image.found) = 3
    /\ image.found[1] \in UnknownCandidates(detector, image)
    /\ image.found[1].area >= detector.min_shape_area
    /\ result.value.shape_count = 2
    /\ image.found[1] \notin Range(result.value.shapes)

InLoop == loop.pc \in {"loop", "done"}

Examined == 1..(loop.next - 1)

(* the candidate passes the area filter and the classifier names it *)
Classifiable(c) ==
    /\ c.area >= detector.min_shape_area
    /\ _classify_shape(detector, _extract_shape_features(c)) # "unknown"

(* candidate j has IoU > 0.5 with a candidate accepted before it *)
DuplicateOfEarlier(j) ==
    \E k \in 1..(j - 1) :
        /\ loop.fates[k] = "accepted"
        /\ ~IoUAtMostHalf(loop.contours[j].bbox, loop.contours[k].bbox)

(* the sets of two or more examined candidates, all classifiable, every two
   of them with IoU > 0.5 *)
OverlappingGroups ==
    {S \in SUBSET Examined :
        /\ Cardinality(S) >= 2
        /\ \A j \in S : Classifiable(loop.contours[j])
        /\ \A j, k \in S : j # k =>
              ~IoUAtMostHalf(loop.contours[j].bbox, loop.contours[k].bbox)}

(* the groups that no further examined candidate can join *)
MaximalGroups ==
    {S \in OverlappingGroups : \A T \in OverlappingGroups : S \subseteq T => S = T}

LeftMost(S) == CHOOSE j \in S : \A k \in S : j <= k

(* the order of examination, the duplicate test and the recorded boxes *)
ExaminedInOrder ==
    InLoop =>
        /\ LeftToRight(loop.contours)
        /\ Len(loop.contours) = Len(image.found)
        /\ Range(loop.contours) = Range(image.found)
        /\ Len(loop.fates) = loop.next - 1
        /\ \A j \in Examined :
              /\ loop.contours[j].area < detector.min_shape_area
                    <=> loop.fates[j] = "small"
              /\ loop.contours[j].area >= detector.min_shape_area =>
                    (loop.fates[j] = "duplicate" <=> DuplicateOfEarlier(j))
              /\ loop.fates[j] = "accepted" =>
                    (Classifiable(loop.contours[j]) /\ ~DuplicateOfEarlier(j))
        /\ loop.acc.processed_areas
              = {loop.contours[j].bbox : j \in {k \in Examined : loop.fates[k] = "accepted"}}
        /\ loop.acc.shapes
              = [n \in 1..Cardinality({k \in Examined : loop.fates[k] = "accepted"}) |->
                   loop.contours[CHOOSE j \in Examined :
                       /\ loop.fates[j] = "accepted"
                       /\ Cardinality({k \in 1..j : loop.fates[k] = "accepted"}) = n]]
        /\ loop.pc = "done" =>
              loop.acc.shapes = _detect_shapes_internal(detector, image).value.shapes

(* C22 as stated: candidates are examined in ascending order of left x; a
   candidate that passes the area filter is discarded as a duplicate if and
   only if its box has IoU > 0.5 with the box of a candidate accepted
   earlier; discarded candidates record no box; and of several mutually
   overlapping classifiable candidates the left-most one is the survivor. *)
C22_LeftMostSurvives ==
    /\ ExaminedInOrder
    /\ InLoop =>
          \A S \in MaximalGroups :
              \A j \in S : loop.fates[j] = "accepted" <=> j = LeftMost(S)

(* C22: candidates are examined in ascending order of left x; a candidate
   that passes the area filter is discarded as a duplicate if and only if
   its box has IoU > 0.5 with the box of a candidate accepted earlier;
   discarded candidates record no box; and of several mutually overlapping
   classifiable candidates at most one survives, the left-most one unless it
   is itself the duplicate of a candidate accepted before it. *)
C22_LeftMostSurvivesUnlessDuplicate ==
    /\ ExaminedInOrder
    /\ InLoop =>
          \A S \in OverlappingGroups :
              /\ Cardinality({j \in S : loop.fates[j] = "accepted"}) <= 1
              /\ loop.fates[LeftMost(S)] = "accepted" \/ DuplicateOfEarlier(LeftMost(S))
              /\ \A j \in S : loop.fates[j] = "accepted" =>
                    (j = LeftMost(S) \/ DuplicateOfEarlier(LeftMost(S)))

(* three classifiable candidates found right to left, the middle one
   overlapping both others: the left one is accepted, the middle one is its
   duplicate, and the right one, which overlaps only the discarded middle
   one, is accepted *)
C22_Witness ==
    /\ loop.pc = "done"
    /\ image.found = <<BarD, BarE, BarA>>
    /\ loop.contours = <<BarA, BarE, BarD>>
    /\ loop.fates = <<"accepted", "duplicate", "accepted">>
    /\ {2, 3} \in MaximalGroups

(***************************************************************************)
(* Properties of the pipeline.                                             *)
(***************************************************************************)
PipelineRan(chart_type) ==
    /\ "detect" \in done
    /\ "extract_data" \in done
    /\ ex_type = chart_type
    /\ ex_result.success

(* the detected shapes of a category, as positions in the result's lists *)
OfCategory(category) ==
    {i \in 1..Len(result.value.shape_types) : result.value.shape_types[i] = category}

(* C23: bar extraction emits one bar for each rectangle-category shape and
   no bar for a shape of any other category, for every list of shapes
   produced by the detector. *)
C23_BarsAreRectangles ==
    PipelineRan("bar") =>
        /\ Len(ex_result.data.bars) = Cardinality(OfCategory("rectangle"))
        /\ \A b \in Range(ex_result.data.bars) :
              \E i \in OfCategory("rectangle") : b = BarOf(result.value.features[i])

(* C24: pie extraction is restricted to segment-category shapes: for every
   list of shapes produced by the detector a shape contributes a segment, and
   its area contributes to the total area, if and only if its category is
   'segment'. *)
C24_SegmentsAreSegments ==
    PipelineRan("pie") =>
        /\ Len(ex_result.data.segments) = Cardinality(OfCategory("segment"))
        /\ ex_result.data.total_area
              = SumSeq([i \in 1..Len(result.value.features) |->
                           IF i \in OfCategory("segment")
                           THEN result.value.features[i].area ELSE 0])

(* C28: whenever detect resolves type 'bar', extract_data('bar') on the same
   shapes and features succeeds with at least 1 bar; whenever it resolves
   'line', extract_data('line') succeeds with at least 3 points; whenever it
   resolves 'pie' and at least one shape is classified 'segment',
   extract_data('pie') succeeds with at least 1 segment. *)
C28_DetectionAndExtractionAgree ==
    ("detect" \in done /\ "extract_data" \in done /\ "resolved" \in done) =>
        /\ ex_type = result.value.type
        /\ result.value.type = "bar" =>
              (ex_result.success /\ Len(ex_result.data.bars) >= 1)
        /\ result.value.type = "line" =>
              (ex_result.success /\ Len(ex_result.data.points) >= 3)
        /\ (result.value.type = "pie" /\ OfCategory("segment") # {}) =>
              (ex_result.success /\ Len(ex_result.data.segments) >= 1)

(* a pie resolved from one segment next to a point and a triangle, and the
   extraction of exactly that segment *)
C28_Witness ==
    /\ "resolved" \in done
    /\ "extract_data" \in done
    /\ result.value.type = "pie"
    /\ result.value.shape_count = 3
    /\ Cardinality(OfCategory("segment")) = 1
    /\ ex_result.success
    /\ Len(ex_result.data.segments) = 1

(* the angle of a segment in thousandths of a degree *)
AngleOf(segment) == Degrees(segment.angle[2], segment.angle[1])

(* C25: pie extraction returns its segments sorted ascending by angle, where
   each segment's angle is the direction from the pie center to the
   segment's centroid in degrees reduced into [0, 360), for every input order
   of the shapes. *)
C25_SegmentsAscendByAngle ==
    Extracted("pie") =>
        LET segments == ex_result.data.segments
            center == ex_result.data.center
        IN  /\ \A i \in 1..Len(segments) :
                  /\ segments[i].angle = <<segments[i].center[1] - center[1],
                                           segments[i].center[2] - center[2]>>
                  /\ 0 <= AngleOf(segments[i]) /\ AngleOf(segments[i]) < 360000
            /\ \A i \in 1..(Len(segments) - 1) :
                  /\ AngleOf(segments[i]) <= AngleOf(segments[i + 1])
                  /\ ~AngleLess(segments[i + 1].angle, segments[i].angle)
            /\ Len(segments)
                  = Cardinality({i \in 1..ZipLen(ex_shapes, ex_features) :
                                    ex_features[i].arc_score > 30})

(* three segments passed in descending order of their angles, the first of
   them below the pie center (an angle above 180 degrees before the
   reduction would be negative) *)
C25_Witness ==
    /\ Extracted("pie")
    /\ Len(ex_shapes) = 3
    /\ Len(ex_result.data.segments) = 3
    /\ AngleOf(ex_result.data.segments[1]) < AngleOf(ex_result.data.segments[2])
    /\ AngleOf(ex_result.data.segments[2]) < AngleOf(ex_result.data.segments[3])
    /\ AngleOf(ex_result.data.segments[3]) > 180000
    /\ ex_result.data.segments[3].center
          = <<IntOfTenths(ex_features[1].center[1]), IntOfTenths(ex_features[1].center[2])>>
    /\ ex_result.data.segments[1].center
          = <<IntOfTenths(ex_features[3].center[1]), IntOfTenths(ex_features[3].center[2])>>

(***************************************************************************)
(* Properties of the ratios.                                               *)
(***************************************************************************)
(* the points all lie on the centre of mass, so that their mean distance
   from it is 0 *)
ZeroMean(points) == \A offset \in Range(PointOffsets(points)) : offset = <<0, 0>>

Coincident(centers) == \A i \in 1..Len(centers) : centers[i] = centers[1]

(* C26: no ratio of feature extraction or of the structural analysis raises
   on a zero denominator.  Solidity and circularity are 0 on a zero hull area
   and on a zero enclosing-circle area, and the distance uniformity of
   radial_arrangement is 0 for more than two centres at zero mean distance
   from their mean.  The other denominators are never 0: the bounding box of
   a contour is at least one pixel wide and high, and the points of a contour
   do not all lie on its centre of mass, so that the mean distance the
   distance score of arc_score divides by (line 183, evaluated under
   area > 1000) is positive. *)
C26_GuardedRatiosYieldZero ==
    /\ "features" \in done =>
         /\ ~ratios.features.raised
         /\ TwiceHullArea(measurement.points) = 0 =>
                ratios.features.value.solidity = Zero
         /\ measurement.circle_area = 0 => ratios.features.value.circularity = Zero
         /\ boundingRect(measurement.points).h # 0
         /\ boundingRect(measurement.points).w * boundingRect(measurement.points).h > 0
         /\ ~ZeroMean(measurement.points)
    /\ ("radial_arrangement" \in done
            /\ Len(measurement.centers) > 2 /\ Coincident(measurement.centers)) =>
         ratios.radial_arrangement =
             RadialWeighted(AngleUniformity([i \in 1..Len(measurement.centers) |-> 0]), 0)

(* both computations done on a contour of one pixel and on three coincident
   centres: the hull area, the area of the enclosing circle and the mean
   distance of the centres are 0, and so are the ratios *)
C26_Witness ==
    /\ done = {"features", "radial_arrangement"}
    /\ TwiceHullArea(measurement.points) = 0 /\ measurement.circle_area = 0
    /\ Coincident(measurement.centers) /\ Len(measurement.centers) > 2
    /\ ~ratios.features.raised
    /\ ratios.features.value.solidity = Zero
    /\ ratios.features.value.circularity = Zero
    /\ ratios.features.value.arc_score = 0
    /\ \A even \in RadialArrangement(<<<<0, 0>>, <<1000, 0>>, <<500, 866>>>>) :
          ratios.radial_arrangement < even

(***************************************************************************)
(* Properties of extract_data on partial feature vectors.                  *)
(***************************************************************************)
NoShapes == ex_shapes = <<>> \/ ex_features = <<>>

(* some zipped feature vector the extractor of ex_type selects lacks the key
   the extractor reads from it by subscript *)
SelectedLacks(selected(_), key) ==
    \E i \in 1..ZipLen(ex_shapes, ex_features) :
        selected(ex_features[i]) /\ key \notin DOMAIN ex_features[i]

Failure(text) == [success |-> FALSE, error |-> text, type |-> ex_type, data |-> <<>>]

(* when a feature vector the extractor selects lacks one of the keys the
   extractor reads by subscript, the result is the failure that carries the
   KeyError of such a key *)
CaughtKeyError(selected(_), keys) ==
    (\E key \in keys : SelectedLacks(selected, key)) =>
        \E key \in keys :
            SelectedLacks(selected, key) /\ ex_result = Failure(KeyErrorText(key))

(* C27: extract_data with an empty shapes or features list returns
   success = false, the error "No shapes detected", the given chart type and
   empty data, whatever the chart type is; and extract_data never raises: an
   exception of an extractor (here the KeyError of a feature vector lacking
   "bounding_box", "center" or "area") comes back as success = false with
   the text of the exception, the given chart type and empty data. *)
C27_ExtractDataNeverRaises ==
    "extract_data" \in done =>
        /\ "success" \in DOMAIN ex_result
        /\ NoShapes => ex_result = Failure("No shapes detected")
        /\ (~NoShapes /\ ex_type = "bar") =>
             CaughtKeyError(IsRectangleFeature, {"bounding_box", "area"})
        /\ (~NoShapes /\ ex_type = "line") =>
             CaughtKeyError(IsLinePoint, {"center", "area"})
        /\ (~NoShapes /\ ex_type = "pie") =>
             CaughtKeyError(IsSegmentFeature, {"area", "center"})
        /\ (~NoShapes /\ ex_type \in {"bar", "line", "pie"}) =>
             \/ ex_result.success /\ ex_result.data.type = ex_type
             \/ ex_result \in {Failure("'bounding_box'"), Failure("'center'"),
                                Failure("'area'")}

(* a pie extraction of a rectangle and a segment whose feature vector has no
   "center": the KeyError came back as the error of a failed result *)
C27_Witness ==
    /\ "extract_data" \in done
    /\ ex_type = "pie"
    /\ Len(ex_shapes) = 2 /\ Len(ex_features) = 2
    /\ Has(ex_features[1], "center") /\ ~Has(ex_features[2], "center")
    /\ IsSegmentFeature(ex_features[2])
    /\ ex_result = Failure("'center'")

(***************************************************************************)
(* Properties of the structural analyzer on a single shape.                *)
(***************************************************************************)
(* C29: with exactly one shape, analyze_chart_structure reports
   vertical_alignment = horizontal_alignment = grid_pattern = 1.0 and
   radial_arrangement = 0.0; so a single rectangle always yields "bar" and a
   single circle never yields "pie". *)
C29_SingleShape ==
    (Analyzed /\ Len(an_shapes) = 1) =>
        /\ an_result.analysis = [vertical_alignment |-> 10000,
                                 horizontal_alignment |-> 10000,
                                 radial_arrangement |-> 0,
                                 grid_pattern |-> 10000]
        /\ an_types = <<"rectangle">> => an_result.type = "bar"
        /\ an_types = <<"circle">> => an_result.type # "pie"

(* a single circle analyzed: perfectly aligned, no radial arrangement, and
   no chart type *)
C29_Witness ==
    /\ Analyzed
    /\ Len(an_shapes) = 1
    /\ an_types = <<"circle">>
    /\ an_result.analysis.vertical_alignment = 10000
    /\ an_result.analysis.radial_arrangement = 0
    /\ an_result.type = None

(***************************************************************************)
(* Properties of the web application.                                      *)
(***************************************************************************)
Answered(i) == requests[i].pc = "done"

Rejected(i) == ~requests[i].upload.has_file \/ requests[i].upload.filename = ""

(* the requests that have been given the name of their temporary PDF *)
Named == {i \in 1..Len(requests) : requests[i].pc \notin {"received"} /\ ~Rejected(i)}

(* C30: a POST /process with no file part or with an empty filename is
   answered 400 before any temporary file is written; any other one saves
   the upload under a fresh uuid-based name, and that temporary PDF is gone
   from the disk by the time the response is produced, both when
   process_document succeeds (200) and when it raises (500); concurrent
   requests never read or remove each other's temporary PDF. *)
C30_TemporaryPdfRemoved ==
    /\ \A i \in 1..Len(requests) :
          /\ Rejected(i) =>
                /\ ~requests[i].saved
                /\ \A n \in DOMAIN disk : disk[n].owner # i
                /\ Answered(i) =>
                      /\ requests[i].status = 400
                      /\ requests[i].body =
                             IF requests[i].upload.has_file THEN "No file selected."
                             ELSE "No file uploaded."
          /\ (Answered(i) /\ ~Rejected(i)) =>
                /\ requests[i].pdf_filename \notin DOMAIN disk
                /\ requests[i].saved => requests[i].removed = {i}
                /\ requests[i].raised => requests[i].status = 500
                /\ requests[i].status = 200 =>
                      /\ requests[i].saved /\ ~requests[i].raised
                      /\ requests[i].body = "text of " \o requests[i].upload.content
          /\ requests[i].reads \subseteq {i}
          /\ requests[i].removed \subseteq {i}
    /\ \A i, j \in Named :
          i # j => requests[i].pdf_filename # requests[j].pdf_filename
    /\ \A i \in Named : \A n \in DOMAIN disk :
          (n = requests[i].pdf_filename) => disk[n].owner = i

(* the same for the requests whose pdf_file.save returned: what holds of the
   code, the temporary PDF of a request whose save raised being left out *)
C30_RemovedOnceSaved ==
    /\ \A i \in 1..Len(requests) :
          /\ (Answered(i) /\ requests[i].saved) =>
                /\ requests[i].pdf_filename \notin DOMAIN disk
                /\ requests[i].removed = {i}
                /\ requests[i].status = IF requests[i].raised THEN 500 ELSE 200
                /\ requests[i].raised <=> requests[i].upload.content = "corrupt"
          /\ requests[i].reads \subseteq {i}
          /\ requests[i].removed \subseteq {i}

(* a request answered 500 because the copy of its upload was cut short,
   with its temporary PDF still on the disk *)
C30_LeftOnDisk ==
    \E i \in 1..Len(requests) :
        /\ Answered(i) /\ ~Rejected(i) /\ ~requests[i].saved
        /\ requests[i].status = 500
        /\ requests[i].pdf_filename \in DOMAIN disk
        /\ disk[requests[i].pdf_filename] = [owner |-> i, content |-> "partial"]

====
